---- MODULE Spec2Model ----
(***************************************************************************)
(* A model of the sprite engine of package sprite (sprite.go): the state   *)
(* graph walk of baseCommand, the command groups of CommandSync and        *)
(* commandGroup.ready, the per-frame advance of Sprite.Think with its      *)
(* deferred waiter resolution, Sprite.Wait and the snapshot pair           *)
(* GetSpriteState / SetSpriteState.                                        *)
(*                                                                         *)
(* Nodes and edges are 1-based indices into the sequences of a graph; the  *)
(* yed id of a node is its index minus one.  0 stands for a nil pointer.   *)
(* Every operation that can make a random choice (selectAnEdge) or that    *)
(* can end in a Go runtime panic returns the SET of its possible outcomes. *)
(***************************************************************************)
EXTENDS Integers, Sequences, FiniteSets, TLC

VARIABLES
    gid,        \* which sharedSprite (pair of graphs) the sprites were loaded from
    sprites,    \* SpriteIds -> the fields of a Sprite
    groups,     \* the commandGroups created so far, in creation order
    chans,      \* waiter id -> the state of its channel and of its Wait call
    fault,      \* "none", or the runtime panic that ended the program
    op,         \* history: the last operation, its input and its result
    steps,      \* the number of operations so far
    trace,      \* history: the operations so far (recorded by SpecExample only)
    clock,      \* history: the tick scheduler's simulated time (SpecTick only)
    mgr,        \* the Manager: its mutex and its map of shared sprites (SpecLoad only)
    thr         \* the goroutines in flight, each with its position and its locals

vars == <<gid, sprites, groups, chans, fault, op, steps, trace, clock, mgr, thr>>

(***************************************************************************)
(* Bounds of the model.                                                    *)
(***************************************************************************)
MaxOps == 3
MaxCalls == 4
MaxPending == 2
MaxWaiters == 2
MaxGroups == 1
MaxLoads == 2
MaxCallers == 3
ThinkFuel == 8
WalkFuel == 4
MaxTicks == 6

SpriteIds == {1, 2}

(***************************************************************************)
(* The graphs.  A node carries what nodeData and the yed tags give the     *)
(* engine (time, sync, func, state, owning group); an edge carries what    *)
(* edgeData gives it (cmd, facing, weight).                                *)
(***************************************************************************)
N(name, time, sync, func, state, group) ==
    [name |-> name, time |-> time, sync |-> sync, func |-> func,
     state |-> state, group |-> group]

E(src, dst, cmd, facing, weight) ==
    [src |-> src, dst |-> dst, cmd |-> cmd, facing |-> facing, weight |-> weight]

\* The graph of the worked example: "idle" (100) --walk--> "walking" (50).
ExampleShared ==
    [facings |-> 1,
     anim |-> [start |-> 1,
               nodes |-> << N("idle", 100, "", "", "idle", 0),
                            N("walking", 50, "", "step", "walking", 0) >>,
               edges |-> << E(1, 2, "walk", 0, 1) >>],
     state |-> [start |-> 1,
                nodes |-> << N("idle", 0, "", "", "", 0),
                             N("walking", 0, "", "", "", 0) >>,
                edges |-> << E(1, 2, "walk", 0, 1) >>],
     cmds |-> { <<"walk">> },
     tags |-> { "go" },
     pairs |-> { << <<"walk">>, <<"walk">> >> },
     waits |-> { <<"walking">> }]

\* A fighter: attack (windup, strike), defend (brace, block), turn.
FighterShared ==
    [facings |-> 2,
     anim |-> [start |-> 1,
               nodes |-> << N("idle", 120, "", "", "ready", 0),
                            N("windup", 20, "", "", "attacking", 0),
                            N("strike", 30, "hit", "hit", "attacking", 0),
                            N("brace", 100, "", "", "defending", 0),
                            N("block", 40, "hit", "", "defending", 0),
                            N("turning", 40, "", "", "ready", 0) >>,
               edges |-> << E(1, 2, "attack", 0, 1),
                            E(2, 3, "", 0, 1),
                            E(3, 1, "", 0, 1),
                            E(1, 4, "defend", 0, 1),
                            E(4, 5, "", 0, 1),
                            E(5, 1, "defend", 0, 1),
                            E(1, 6, "turn", 1, 1),
                            E(6, 1, "", 0, 1) >>],
     state |-> [start |-> 1,
                nodes |-> << N("ready", 0, "", "", "", 0),
                             N("attacking", 0, "", "", "", 0),
                             N("defending", 0, "", "", "", 0) >>,
                edges |-> << E(1, 2, "attack", 0, 1),
                             E(2, 1, "", 0, 1),
                             E(1, 3, "defend", 0, 1),
                             E(3, 1, "defend", 0, 1),
                             E(1, 1, "turn", 1, 1) >>],
     cmds |-> { <<"attack">>, <<"defend">>, <<"turn">>, <<"defend", "attack">> },
     tags |-> { "hit" },
     pairs |-> { << <<"attack">>, <<"attack">> >>, << <<"attack">>, <<"defend">> >> },
     waits |-> { <<"ready">>, <<"attacking">>, <<"attacking", "attacking">> }]

\* A state graph on which one node has two outgoing edges with the same label.
ForkShared ==
    [facings |-> 1,
     anim |-> [start |-> 1,
               nodes |-> << N("a", 60, "", "", "a", 0),
                            N("b", 30, "", "", "b", 0) >>,
               edges |-> << E(1, 2, "go", 0, 1),
                            E(2, 1, "on", 0, 1),
                            E(2, 1, "go", 0, 1) >>],
     state |-> [start |-> 1,
                nodes |-> << N("a", 0, "", "", "", 0),
                             N("b", 0, "", "", "", 0),
                             N("c", 0, "", "", "", 0) >>,
                edges |-> << E(1, 2, "go", 0, 1),
                             E(1, 3, "go", 0, 1),
                             E(2, 1, "on", 0, 1),
                             E(3, 1, "go", 0, 1) >>],
     cmds |-> { <<"go">>, <<"go", "on">> },
     tags |-> { "go" },
     pairs |-> { << <<"go">>, <<"go", "on">> >> },
     waits |-> { <<"a">> }]

\* A state graph that accepts "wave", which no edge of the animation graph
\* carries: a "wave" command has no animation path.
GestureShared ==
    [facings |-> 1,
     anim |-> [start |-> 1,
               nodes |-> << N("idle", 100, "", "", "idle", 0),
                            N("nod", 40, "beat", "", "nodding", 0) >>,
               edges |-> << E(1, 2, "nod", 0, 1),
                            E(2, 1, "", 0, 1) >>],
     state |-> [start |-> 1,
                nodes |-> << N("idle", 0, "", "", "", 0) >>,
                edges |-> << E(1, 1, "nod", 0, 1),
                             E(1, 1, "wave", 0, 1) >>],
     cmds |-> { <<"nod">>, <<"wave">>, <<"nod", "wave">> },
     tags |-> { "beat" },
     pairs |-> { << <<"wave">>, <<"wave">> >>, << <<"nod">>, <<"wave">> >> },
     waits |-> { <<"idle">>, <<"nodding">> }]

\* A boxer.  "combo" is a group node with the frames "jab" and "hook" in it;
\* the edge to "finish" is authored on the group.  "idle" and "breathe" are
\* a loop of unlabeled edges, "z1" and "z2" a loop of frames of duration 0.
ComboShared ==
    [facings |-> 1,
     anim |-> [start |-> 1,
               nodes |-> << N("idle", 40, "", "", "idle", 0),
                            N("breathe", 100, "", "", "idle", 0),
                            N("combo", 0, "", "", "", 0),
                            N("jab", 60, "", "", "boxing", 3),
                            N("hook", 60, "", "", "boxing", 3),
                            N("finish", 50, "hit", "hit", "boxing", 0),
                            N("z1", 0, "", "", "spinning", 0),
                            N("z2", 0, "", "", "spinning", 0) >>,
               edges |-> << E(1, 2, "", 0, 1),
                            E(2, 1, "", 0, 1),
                            E(1, 4, "jab", 0, 1),
                            E(4, 5, "hook", 0, 1),
                            E(3, 6, "finish", 0, 1),
                            E(5, 1, "", 0, 1),
                            E(6, 1, "", 0, 1),
                            E(1, 7, "spin", 0, 1),
                            E(7, 8, "", 0, 1),
                            E(8, 7, "", 0, 1) >>],
     state |-> [start |-> 1,
                nodes |-> << N("ring", 0, "", "", "", 0) >>,
                edges |-> << E(1, 1, "jab", 0, 1),
                             E(1, 1, "hook", 0, 1),
                             E(1, 1, "finish", 0, 1),
                             E(1, 1, "spin", 0, 1) >>],
     cmds |-> { <<"jab">>, <<"spin">>, <<"jab", "finish">>, <<"jab", "hook", "finish">> },
     tags |-> { "hit" },
     pairs |-> { << <<"jab", "finish">>, <<"jab", "hook", "finish">> >> },
     waits |-> { <<"idle">>, <<"boxing">> }]

\* Two ways from "s" to "d", the destination of the "dash" edges: two edges
\* through "p", or three edges through "a" and "b", each alone in a group.
DetourShared ==
    [facings |-> 1,
     anim |-> [start |-> 1,
               nodes |-> << N("s", 50, "", "", "s", 0),
                            N("p", 50, "", "", "p", 0),
                            N("d", 50, "", "", "d", 0),
                            N("ga", 0, "", "", "", 0),
                            N("a", 50, "", "", "a", 4),
                            N("gb", 0, "", "", "", 0),
                            N("b", 50, "", "", "b", 6) >>,
               edges |-> << E(1, 2, "", 0, 1),
                            E(2, 3, "dash", 0, 1),
                            E(1, 5, "", 0, 1),
                            E(5, 7, "", 0, 1),
                            E(7, 3, "dash", 0, 1),
                            E(3, 1, "", 0, 1) >>],
     state |-> [start |-> 1,
                nodes |-> << N("s", 0, "", "", "", 0) >>,
                edges |-> << E(1, 1, "dash", 0, 1) >>],
     cmds |-> { <<"dash">>, <<"dash", "dash">> },
     tags |-> { "go" },
     pairs |-> { << <<"dash">>, <<"dash">> >> },
     waits |-> { <<"d">> }]

\* A sprite with two facings whose "back" edges carry the facing delta -3 and
\* whose "spin" edges carry the facing delta 5.
PivotShared ==
    [facings |-> 2,
     anim |-> [start |-> 1,
               nodes |-> << N("idle", 100, "", "", "ready", 0),
                            N("pivot", 40, "turn", "", "ready", 0),
                            N("whirl", 40, "turn", "", "ready", 0) >>,
               edges |-> << E(1, 2, "back", 0 - 3, 1),
                            E(2, 1, "", 0, 1),
                            E(1, 3, "spin", 5, 1),
                            E(3, 1, "", 0, 1) >>],
     state |-> [start |-> 1,
                nodes |-> << N("ready", 0, "", "", "", 0) >>,
                edges |-> << E(1, 1, "back", 0 - 3, 1),
                             E(1, 1, "spin", 5, 1) >>],
     cmds |-> { <<"back">>, <<"spin">>, <<"spin", "spin">> },
     tags |-> { "turn" },
     pairs |-> { << <<"spin">>, <<"back">> >> },
     waits |-> { <<"ready">> }]

\* A state graph whose unlabeled edges form a cycle away from the start
\* node: "x" and "y" lead to each other.  Every edge out of the start node is
\* labeled and no node has more than one unlabeled edge.
OrbitShared ==
    [facings |-> 1,
     anim |-> [start |-> 1,
               nodes |-> << N("a", 60, "", "", "a", 0),
                            N("b", 30, "go", "", "b", 0) >>,
               edges |-> << E(1, 2, "go", 0, 1),
                            E(2, 1, "", 0, 1),
                            E(1, 1, "on", 0, 1) >>],
     state |-> [start |-> 1,
                nodes |-> << N("home", 0, "", "", "", 0),
                             N("x", 0, "", "", "", 0),
                             N("y", 0, "", "", "", 0) >>,
                edges |-> << E(1, 2, "go", 0, 1),
                             E(2, 3, "", 0, 1),
                             E(3, 2, "", 0, 1),
                             E(1, 1, "on", 0, 1) >>],
     cmds |-> { <<"go">>, <<"on">>, <<"on", "on">> },
     tags |-> { "go" },
     pairs |-> { << <<"on">>, <<"on">> >> },
     waits |-> { <<"a">> }]

Shareds == << ExampleShared, FighterShared, ForkShared, GestureShared,
              ComboShared, DetourShared, PivotShared, OrbitShared >>

G == Shareds[gid]
Anim == G.anim
State == G.state

NumFacings == G.facings

\* yed.Node.Id and yed.Graph.Node
\* graph.Node(id) as it would be if ids were taken for 1-based positions
NodeAt_Raw(gr, id) == id

NodeId(n) == n - 1
NodeAt(gr, id) == IF id + 1 \in 1..Len(gr.nodes) THEN id + 1 ELSE 0

(***************************************************************************)
(* Small helpers.                                                          *)
(***************************************************************************)
Max(a, b) == IF a >= b THEN a ELSE b

\* Go's % truncates toward zero: the sign of the result is the dividend's.
GoMod(a, n) == IF a >= 0 THEN a % n ELSE 0 - ((0 - a) % n)

Last(q) == q[Len(q)]

RECURSIVE SumWeights(_, _)
SumWeights(gr, es) ==
    IF es = <<>> THEN 0 ELSE gr.edges[Head(es)].weight + SumWeights(gr, Tail(es))

\* node.Output(i), i = 0..NumOutputs()-1: the edges authored on the node itself
Outputs(gr, n) ==
    SelectSeq([i \in 1..Len(gr.edges) |-> i], LAMBDA e : gr.edges[e].src = n)

\* node.GroupOutput(i): the node's own edges, then those of its enclosing groups
RECURSIVE GroupOutputs(_, _)
GroupOutputs(gr, n) ==
    Outputs(gr, n) \o
        (IF gr.nodes[n].group # 0 THEN GroupOutputs(gr, gr.nodes[n].group) ELSE <<>>)

\* The edges selectAnEdge can return (0: nil).  pick = rand.Float64() * total
\* lies in [0, total): pick = 0 returns the first matching edge, every other
\* pick returns a matching edge of positive weight.
selectAnEdge(gr, node, cmds) ==
    LET m == SelectSeq(Outputs(gr, node), LAMBDA e : gr.edges[e].cmd \in cmds)
    IN  IF SumWeights(gr, m) > 0
        THEN {m[i] : i \in {j \in 1..Len(m) : j = 1 \/ gr.edges[m[j]].weight > 0}}
        ELSE {0}

connectedByGroupEdge(n1, n2) ==
    \E i \in 1..Len(GroupOutputs(Anim, n1)) :
        LET edge == Anim.edges[GroupOutputs(Anim, n1)[i]]
        IN  edge.src # n1 /\ edge.dst = n2

\* b and its enclosing groups
RECURSIVE Ancestors(_, _)
Ancestors(gr, b) ==
    IF b = 0 THEN {} ELSE {b} \cup Ancestors(gr, gr.nodes[b].group)

\* The first group-output edge of a that leads to b or to a group around b (0: nil)
edgeTo(a, b) ==
    LET go == GroupOutputs(Anim, a)
        hit == {i \in 1..Len(go) : Anim.edges[go[i]].dst \in Ancestors(Anim, b)}
    IN  IF hit = {} THEN 0
        ELSE go[CHOOSE i \in hit : \A j \in hit : i <= j]

\* edge_data[edge].facing; the map lookup of a nil edge gives the zero edgeData
EdgeFacing(gr, e) == IF e = 0 THEN 0 ELSE gr.edges[e].facing

(***************************************************************************)
(* Sprites, commands and the world the operations act on.                  *)
(***************************************************************************)
NoFacingLoads == [f \in 0..(NumFacings - 1) |-> 0]

\* The Sprite LoadSprite returns: the zero value, placed on the two start nodes.
NewSprite ==
    [anim_node |-> Anim.start, state_node |-> State.start, thinks |-> 0,
     facing |-> 0, prev_facing |-> 0, state_facing |-> 0, togo |-> 0,
     path |-> <<>>, pending_cmds |-> <<>>, waiters |-> <<>>,
     waiter_mutex |-> 0, loads |-> NoFacingLoads]

\* command{names, group}; group 0 is the nil group
Cmd(names, group) == [names |-> names, group |-> group]

\* sheet.Load / sheet.Unload of one facing, counted per sprite
Load(sp, f) == [sp EXCEPT !.loads[f] = @ + 1]
Unload(sp, f) == [sp EXCEPT !.loads[f] = @ - 1]

\* What an operation works on.  History of the operation: fired, the func
\* tags handed to the trigger; entered, the animation nodes the sprite was
\* put on, each with the part of dt still to be spent at that moment;
\* blocked, a channel send had to wait for the receiver; returned, what
\* baseCommand gave CommandSync for each sprite in turn.
World ==
    [sprites |-> sprites, groups |-> groups, chans |-> chans, fault |-> fault,
     fired |-> <<>>, entered |-> <<>>, blocked |-> FALSE, returned |-> <<>>]

Enter(w, node, left) == [w EXCEPT !.entered = Append(@, [node |-> node, left |-> left])]

Panics == {"nil pointer dereference", "index out of range"}

State_(sp) == State.nodes[sp.state_node].name
AnimName(sp) == Anim.nodes[sp.anim_node].name
AnimState(sp) == Anim.nodes[sp.anim_node].state
NumPendingCmds(sp) == Len(sp.pending_cmds)
Idle(sp) == Len(sp.pending_cmds) = 0 /\ Len(sp.path) = 0

(***************************************************************************)
(* Command intake: baseCommand.                                            *)
(***************************************************************************)
\* The first loop: can the labels be walked from node?  Every draw of
\* selectAnEdge is covered: the set holds TRUE and/or FALSE.
RECURSIVE ValidateWalk(_, _)
ValidateWalk(node, names) ==
    IF names = <<>> THEN {TRUE}
    ELSE UNION { IF e = 0 THEN {FALSE}
                 ELSE ValidateWalk(State.edges[e].dst, Tail(names))
                 : e \in selectAnEdge(State, node, {Head(names)}) }

\* The second loop: draws the edges again, from s.state_node, and commits each
\* step as it goes.  edge.Dst() of a nil edge panics.
RECURSIVE CommitWalk(_, _)
CommitWalk(sp, names) ==
    IF names = <<>> THEN {[sp |-> sp, fault |-> "none"]}
    ELSE UNION { IF e = 0 THEN {[sp |-> sp, fault |-> "nil pointer dereference"]}
                 ELSE CommitWalk(
                        [sp EXCEPT !.state_node = State.edges[e].dst,
                                   !.state_facing =
                                       GoMod(@ + EdgeFacing(State, e) + NumFacings, NumFacings)],
                        Tail(names))
                 : e \in selectAnEdge(State, sp.state_node, {Head(names)}) }

\* The trailing loop over unlabeled edges; -1: the loop did not end within fuel steps
RECURSIVE SettleWalk(_, _)
SettleWalk(node, fuel) ==
    UNION { IF e = 0 THEN {node}
            ELSE IF fuel = 0 THEN {-1}
            ELSE SettleWalk(State.edges[e].dst, fuel - 1)
            : e \in selectAnEdge(State, node, {""}) }

\* baseCommand as it would be if the command were appended before the walk
\* is validated
baseCommand_AppendOnReject(sp, cmd) ==
    LET v == ValidateWalk(sp.state_node, cmd.names)
        rejected == IF FALSE \in v
                    THEN {[sp |-> [sp EXCEPT !.pending_cmds = Append(@, cmd)],
                           ok |-> FALSE, fault |-> "none"]}
                    ELSE {}
        walked == IF TRUE \in v THEN CommitWalk(sp, cmd.names) ELSE {}
        accepted ==
            UNION { IF c.fault # "none"
                    THEN {[sp |-> c.sp, ok |-> FALSE, fault |-> c.fault]}
                    ELSE { IF n = -1
                           THEN [sp |-> c.sp, ok |-> FALSE, fault |-> "hang"]
                           ELSE [sp |-> [c.sp EXCEPT !.state_node = n,
                                                     !.pending_cmds = Append(@, cmd)],
                                 ok |-> TRUE, fault |-> "none"]
                           : n \in SettleWalk(c.sp.state_node, WalkFuel) }
                    : c \in walked }
    IN  rejected \cup accepted

\* baseCommand as it would be if the command went to the front of the queue
baseCommand_Prepends(sp, cmd) ==
    LET v == ValidateWalk(sp.state_node, cmd.names)
        rejected == IF FALSE \in v
                    THEN {[sp |-> sp, ok |-> FALSE, fault |-> "none"]} ELSE {}
        walked == IF TRUE \in v THEN CommitWalk(sp, cmd.names) ELSE {}
        accepted ==
            UNION { IF c.fault # "none"
                    THEN {[sp |-> c.sp, ok |-> FALSE, fault |-> c.fault]}
                    ELSE { IF n = -1
                           THEN [sp |-> c.sp, ok |-> FALSE, fault |-> "hang"]
                           ELSE [sp |-> [c.sp EXCEPT !.state_node = n,
                                                     !.pending_cmds = <<cmd>> \o @],
                                 ok |-> TRUE, fault |-> "none"]
                           : n \in SettleWalk(c.sp.state_node, WalkFuel) }
                    : c \in walked }
    IN  rejected \cup accepted

\* The outcomes of s.baseCommand(cmd): the sprite after it, the value returned
\* and the panic, if any.
baseCommand(sp, cmd) ==
    LET v == ValidateWalk(sp.state_node, cmd.names)
        rejected == IF FALSE \in v
                    THEN {[sp |-> sp, ok |-> FALSE, fault |-> "none"]} ELSE {}
        walked == IF TRUE \in v THEN CommitWalk(sp, cmd.names) ELSE {}
        accepted ==
            UNION { IF c.fault # "none"
                    THEN {[sp |-> c.sp, ok |-> FALSE, fault |-> c.fault]}
                    ELSE { IF n = -1
                           THEN [sp |-> c.sp, ok |-> FALSE, fault |-> "hang"]
                           ELSE [sp |-> [c.sp EXCEPT !.state_node = n,
                                                     !.pending_cmds = Append(@, cmd)],
                                 ok |-> TRUE, fault |-> "none"]
                           : n \in SettleWalk(c.sp.state_node, WalkFuel) }
                    : c \in walked }
    IN  rejected \cup accepted

(***************************************************************************)
(* Path finding.                                                           *)
(***************************************************************************)
\* pathingGraph.Adjacent without the test of the edge's cmd
Adjacent_AnyCmd(node, cmd) ==
    LET go == GroupOutputs(Anim, node)
    IN  {Anim.edges[go[i]].dst : i \in 1..Len(go)}

\* pathingGraph.Adjacent: the group-output edges whose cmd is empty or p.cmd
Adjacent(node, cmd) ==
    LET go == GroupOutputs(Anim, node)
    IN  {Anim.edges[go[i]].dst :
            i \in {j \in 1..Len(go) : Anim.edges[go[j]].cmd \in {"", cmd}}}

\* The nodes findPathForCmd collects as destinations for one label
PathEnds(cmd) ==
    {Anim.edges[i].dst : i \in {j \in 1..Len(Anim.edges) : Anim.edges[j].cmd = cmd}}

\* The cost of the edge from a to b as animAlgoGraph.Adjacent counts it for
\* an edge that leaves the group of a: 0
Cost_GroupExitFree(a, b) ==
    IF Anim.nodes[a].group # 0 /\ Anim.nodes[b].group # Anim.nodes[a].group THEN 0 ELSE 1

\* pathingGraph.Adjacent: cost = append(cost, 1), for every edge it follows
Cost(a, b) == 1

RECURSIVE PathCost(_, _)
PathCost(from, p) ==
    IF p = <<>> THEN 0 ELSE Cost(from, Head(p)) + PathCost(Head(p), Tail(p))

\* The paths of front that end on no vertex of ends, each with one more
\* vertex of the pathing graph that it has not entered yet
Extend(front, cmd, ends) ==
    UNION { IF Last(p) \in ends THEN {}
            ELSE {Append(p, d) : d \in Adjacent(Last(p), cmd) \ {p[i] : i \in 1..Len(p)}}
            : p \in front }

\* The paths of front and every extension of them along the pathing graph
\* that enters no vertex twice and goes on from no vertex of ends
RECURSIVE Search(_, _, _, _)
Search(front, cmd, ends, fuel) ==
    IF fuel = 0 \/ front = {} THEN front
    ELSE front \cup Search(Extend(front, cmd, ends), cmd, ends, fuel - 1)

\* The paths of all that end on a vertex of ends at the least cost
Cheapest(start, all, ends) ==
    {p \in all : /\ Last(p) \in ends
                 /\ \A q \in all : Last(q) \in ends => PathCost(start, p) <= PathCost(start, q)}

\* algorithm.Dijkstra from the synthetic vertex standing for start to any of
\* ends, without its first vertex (the caller's path[1:]): the cheapest paths,
\* one of which is returned; the empty path alone when there is none.
Dijkstra(start, cmd, ends) ==
    LET found == Cheapest(start, Search({<<d>> : d \in Adjacent(start, cmd)}, cmd, ends,
                                        Len(Anim.nodes)), ends)
    IN  IF found = {} THEN {<<>>} ELSE found

\* findPathForCmd with every sub-path searched from the node of the call
RECURSIVE FindPathFrom_NoReroot(_, _, _)
FindPathFrom_NoReroot(names, anim_node, node_path) ==
    IF names = <<>> THEN {node_path}
    ELSE UNION { FindPathFrom_NoReroot(Tail(names), anim_node, node_path \o p)
                 : p \in Dijkstra(anim_node, Head(names), PathEnds(Head(names))) }

RECURSIVE FindPathFrom(_, _, _)
FindPathFrom(names, anim_node, node_path) ==
    IF names = <<>> THEN {node_path}
    ELSE UNION { LET np == node_path \o p
                 IN  FindPathFrom(Tail(names),
                                  IF Len(np) > 0 THEN Last(np) ELSE anim_node, np)
                 : p \in Dijkstra(anim_node, Head(names), PathEnds(Head(names))) }

\* s.findPathForCmd(cmd, anim_node); <<>> is the nil path
findPathForCmd(cmd, anim_node) == FindPathFrom(cmd.names, anim_node, <<>>)

HasSync(path, tag) == \E i \in 1..Len(path) : Anim.nodes[path[i]].sync = tag

\* The loop of findPathForSyncedCmd over unlabeled edges: the extra nodes
RECURSIVE ExtendPath(_, _, _, _)
ExtendPath(tail, adds, extra, tag) ==
    UNION { IF tail \in adds \/ e = 0 THEN {extra}
            ELSE LET t2 == Anim.edges[e].dst
                     ex2 == Append(extra, t2)
                 IN  IF Anim.nodes[t2].sync = tag THEN {ex2}
                     ELSE ExtendPath(t2, adds \cup {tail}, ex2, tag)
            : e \in selectAnEdge(Anim, tail, {""}) }

\* findPathForSyncedCmd without the test of lines 678-682: the extra nodes are
\* appended whether or not the last of them carries the sync tag
findPathForSyncedCmd_AlwaysExtends(cmd, anim_node, tag) ==
    UNION { IF Len(path) = 0 \/ HasSync(path, tag) THEN {path}
            ELSE { path \o extra : extra \in ExtendPath(Last(path), {}, <<>>, tag) }
            : path \in findPathForCmd(cmd, anim_node) }

findPathForSyncedCmd(cmd, anim_node, tag) ==
    UNION { IF Len(path) = 0 \/ HasSync(path, tag) THEN {path}
            ELSE { IF Len(extra) > 0 /\ Anim.nodes[Last(extra)].sync = tag
                   THEN path \o extra ELSE path
                   : extra \in ExtendPath(Last(path), {}, <<>>, tag) }
            : path \in findPathForCmd(cmd, anim_node) }

(***************************************************************************)
(* Command groups: commandGroup.ready.                                     *)
(***************************************************************************)
\* A commandGroup as CommandSync leaves it.  History: total, the value
\* ready() first stores in cg.eta[sp]; offset, the wait offset it then
\* replaces it with (eta itself is counted down by Think); seen, the path and
\* the pending commands each sprite had when ready() first returned true.
NewGroup(tag) ==
    [sync_tag |-> tag, sprites |-> <<>>, was_ready |-> FALSE,
     eta |-> [s \in SpriteIds |-> 0], paths |-> [s \in SpriteIds |-> <<>>],
     total |-> [s \in SpriteIds |-> 0], offset |-> [s \in SpriteIds |-> 0],
     seen |-> <<>>]

\* What ready() saw of the sprites
Seen(w) ==
    [s \in SpriteIds |-> [path |-> w.sprites[s].path,
                          pending_cmds |-> w.sprites[s].pending_cmds]]

IsMember(cg, s) == \E i \in 1..Len(cg.sprites) : cg.sprites[i] = s

\* The first loop of ready() as it would be without the test of the head
\* command's group
AllWaiting_AnyHead(w, g) ==
    \A i \in 1..Len(w.groups[g].sprites) :
        LET sp == w.sprites[w.groups[g].sprites[i]]
        IN  /\ Len(sp.path) = 0
            /\ Len(sp.pending_cmds) > 0

\* The first loop of ready(): no member has a path left, each has this
\* group's command at the head of its pending commands.
AllWaiting(w, g) ==
    \A i \in 1..Len(w.groups[g].sprites) :
        LET sp == w.sprites[w.groups[g].sprites[i]]
        IN  /\ Len(sp.path) = 0
            /\ Len(sp.pending_cmds) > 0
            /\ sp.pending_cmds[1].group = g

\* The time ready() adds up along path from its i-th node on, up to the
\* first node tagged with the sync tag
RECURSIVE PathTotal(_, _, _, _)
PathTotal(sp, path, i, tag) ==
    IF i > Len(path) THEN 0
    ELSE IF Anim.nodes[path[i]].sync = tag THEN 0
    ELSE LET prev == IF i = 1 THEN sp.anim_node ELSE path[i - 1]
             charge == IF connectedByGroupEdge(prev, path[i]) THEN 0
                       ELSE IF i = 1 THEN sp.togo
                       ELSE Anim.nodes[path[i]].time
         IN  charge + PathTotal(sp, path, i + 1, tag)

\* var max int64, raised by every larger total
RECURSIVE MaxTotal(_, _, _)
MaxTotal(members, totals, i) ==
    IF i > Len(members) THEN 0
    ELSE Max(totals[members[i]], MaxTotal(members, totals, i + 1))

\* The last loop of ready() as it would be if it left the totals in cg.eta
WaitOffsets_Unrebased(cg, totals) ==
    [s \in SpriteIds |-> IF IsMember(cg, s) THEN totals[s] ELSE 0]

\* The wait offsets the last loop of ready() stores
WaitOffsets(cg, totals) ==
    [s \in SpriteIds |->
        IF IsMember(cg, s) THEN MaxTotal(cg.sprites, totals, 1) - totals[s] ELSE 0]

\* One path per member, as findPathForSyncedCmd can return them
PathAssignments(w, g) ==
    LET cg == w.groups[g]
        choices(s) == findPathForSyncedCmd(w.sprites[s].pending_cmds[1],
                                           w.sprites[s].anim_node, cg.sync_tag)
        all == UNION {choices(cg.sprites[i]) : i \in 1..Len(cg.sprites)} \cup {<<>>}
    IN  {f \in [SpriteIds -> all] :
            \A s \in SpriteIds :
                IF IsMember(cg, s) THEN f[s] \in choices(s) ELSE f[s] = <<>>}

\* cg.ready() as it would be without the was_ready latch
ready_NoLatch(w, g) ==
    LET cg == w.groups[g]
    IN  IF ~AllWaiting(w, g) THEN {[w |-> w, ready |-> FALSE]}
        ELSE { LET totals == [s \in SpriteIds |->
                                 IF IsMember(cg, s)
                                 THEN PathTotal(w.sprites[s], ps[s], 1, cg.sync_tag)
                                 ELSE 0]
               IN  [w |-> [w EXCEPT !.groups[g] =
                              [cg EXCEPT !.eta = WaitOffsets(cg, totals),
                                         !.paths = ps,
                                         !.total = totals,
                                         !.offset = WaitOffsets(cg, totals),
                                         !.seen = Seen(w),
                                         !.was_ready = TRUE]],
                    ready |-> TRUE]
               : ps \in PathAssignments(w, g) }

\* cg.ready(): the world after the call and the value returned
ready(w, g) ==
    LET cg == w.groups[g]
    IN  IF cg.was_ready THEN {[w |-> w, ready |-> TRUE]}
        ELSE IF ~AllWaiting(w, g) THEN {[w |-> w, ready |-> FALSE]}
        ELSE { LET totals == [s \in SpriteIds |->
                                 IF IsMember(cg, s)
                                 THEN PathTotal(w.sprites[s], ps[s], 1, cg.sync_tag)
                                 ELSE 0]
               IN  [w |-> [w EXCEPT !.groups[g] =
                              [cg EXCEPT !.eta = WaitOffsets(cg, totals),
                                         !.paths = ps,
                                         !.total = totals,
                                         !.offset = WaitOffsets(cg, totals),
                                         !.seen = Seen(w),
                                         !.was_ready = TRUE]],
                    ready |-> TRUE]
               : ps \in PathAssignments(w, g) }

(***************************************************************************)
(* Sprite.Think.                                                           *)
(***************************************************************************)
\* s.doTrigger(), with a trigger func installed
doTrigger(w, sp) ==
    IF Anim.nodes[sp.anim_node].func # ""
    THEN [w EXCEPT !.fired = Append(@, Anim.nodes[sp.anim_node].func)]
    ELSE w

\* A grouped command whose group is ready: count the wait offset down and,
\* once it is used up, snap onto the first node of the group's path.
SnapOnto(w, s, g, dt) ==
    LET t == w.groups[g].eta[s] - dt
        gp == w.groups[g].paths[s]
    IN  IF t > 0
        THEN [w |-> [w EXCEPT !.groups[g].eta[s] = t], path |-> <<>>, has |-> FALSE]
        ELSE IF Len(gp) = 0
        THEN [w |-> [w EXCEPT !.fault = "index out of range"],
              path |-> <<>>, has |-> FALSE]
        ELSE LET sp2 == [w.sprites[s] EXCEPT !.anim_node = gp[1],
                                             !.togo = Anim.nodes[gp[1]].time]
             IN  [w |-> doTrigger(Enter([w EXCEPT !.sprites[s] = sp2,
                                                  !.groups[g].eta[s] = t],
                                        gp[1], dt), sp2),
                  path |-> Tail(gp), has |-> TRUE]

\* Lines 856-872: the path for the head command; has: path != nil
ResolveCmd(w, s, dt) ==
    LET sp == w.sprites[s]
    IN  IF ~(Len(sp.pending_cmds) > 0 /\ Len(sp.path) = 0)
        THEN {[w |-> w, path |-> <<>>, has |-> FALSE]}
        ELSE IF sp.pending_cmds[1].group = 0
        THEN {[w |-> w, path |-> p, has |-> Len(p) > 0]
                 : p \in findPathForCmd(sp.pending_cmds[1], sp.anim_node)}
        ELSE { IF r.ready THEN SnapOnto(r.w, s, sp.pending_cmds[1].group, dt)
               ELSE [w |-> r.w, path |-> <<>>, has |-> FALSE]
               : r \in ready(w, sp.pending_cmds[1].group) }

\* Lines 873-876 as they would be if the resolved command took the whole
\* queue with it
ApplyCmd_ClearsQueue(r, s) ==
    IF r.has
    THEN [r.w EXCEPT !.sprites[s].path = @ \o r.path,
                     !.sprites[s].pending_cmds = <<>>]
    ELSE r.w

\* Lines 873-876: applyPath and the removal of the head command
ApplyCmd(r, s) ==
    IF r.has
    THEN [r.w EXCEPT !.sprites[s].path = @ \o r.path,
                     !.sprites[s].pending_cmds = Tail(@)]
    ELSE r.w

\* Lines 878-891 left out: the frame is never cut short
ShortCircuit_Never(sp) == sp

\* Lines 878-891: a group edge to the next node of the path ends the frame now
ShortCircuit(sp) ==
    IF /\ Len(sp.path) > 0
       /\ Anim.nodes[sp.anim_node].group # 0
       /\ \E i \in 1..Len(GroupOutputs(Anim, sp.anim_node)) :
             LET edge == Anim.edges[GroupOutputs(Anim, sp.anim_node)[i]]
             IN  edge.src # sp.anim_node /\ edge.dst = sp.path[1]
    THEN [sp EXCEPT !.togo = 0]
    ELSE sp

\* Line 896 indexes s.shared.facings with a facing that is no index of it
SwapPanics(sp) == sp.facing # sp.prev_facing /\ sp.facing \notin DOMAIN sp.loads

\* Lines 894-898: the facing changed since the last frame that ended here
SwapFacing(sp) ==
    IF sp.facing = sp.prev_facing THEN sp
    ELSE IF SwapPanics(sp) THEN Unload(sp, sp.prev_facing)
    ELSE [Load(Unload(sp, sp.prev_facing), sp.facing) EXCEPT !.prev_facing = sp.facing]

\* algorithm.Choose(&s.waiters, w.states != nil); <<>> is the nil list
Choose(ws) == SelectSeq(ws, LAMBDA x : x.states # <<>>)

\* s.waiters[i].c <- struct{}{} on the one-slot channel of waiter id
Send(w, id) ==
    LET c == w.chans[id]
    IN  IF c.buf = 0
        THEN [w EXCEPT !.chans[id].buf = 1, !.chans[id].sent = @ + 1]
        ELSE IF c.recvd = 0
        THEN [w EXCEPT !.chans[id].sent = @ + 1, !.chans[id].recvd = 1,
                       !.blocked = TRUE]
        ELSE [w EXCEPT !.fault = "send blocked forever"]

\* Lines 844-849: one send per entry of the waiter's states that matches
RECURSIVE SendHits(_, _, _, _)
SendHits(w, id, states, cur) ==
    IF states = <<>> \/ w.fault # "none" THEN w
    ELSE SendHits(IF Head(states) = cur THEN Send(w, id) ELSE w, id, Tail(states), cur)

\* Lines 843-853: for i := range s.waiters, over the n waiters there were
\* when the loop began
RECURSIVE WaiterLoop(_, _, _, _)
WaiterLoop(w, s, i, n) ==
    IF i > n \/ w.fault # "none" THEN w
    ELSE IF i > Len(w.sprites[s].waiters)
    THEN [w EXCEPT !.fault = "index out of range"]
    ELSE LET wt == w.sprites[s].waiters[i]
             cur == AnimState(w.sprites[s])
             hit == \E k \in 1..Len(wt.states) : wt.states[k] = cur
             w1 == SendHits(w, wt.id, wt.states, cur)
             w2 == IF w1.fault # "none" THEN w1
                   ELSE [w1 EXCEPT !.sprites[s].waiters =
                            Choose(IF hit THEN [@ EXCEPT ![i].states = <<>>] ELSE @)]
         IN  WaiterLoop(w2, s, i + 1, n)

\* Lines 839-854: the deferred func.  It also runs while a panic unwinds.
Deferred(w, s) ==
    IF w.fault \notin ({"none"} \cup Panics) THEN w
    ELSE IF NumPendingCmds(w.sprites[s]) > 0 THEN w
    ELSE LET r == WaiterLoop([w EXCEPT !.fault = "none"], s, 1,
                             Len(w.sprites[s].waiters))
         IN  IF r.fault = "none" THEN [r EXCEPT !.fault = w.fault] ELSE r

RECURSIVE Think(_, _, _, _)

\* Lines 892-925 as they would be with s.togo > dt: a frame that dt uses up
\* exactly is left at once
Advance_StrictFrame(w, s, dt, fuel) ==
    LET sp == ShortCircuit(w.sprites[s])
    IN  IF sp.togo > dt
        THEN {[w EXCEPT !.sprites[s] = SwapFacing([sp EXCEPT !.togo = @ - dt]),
                        !.fault = IF SwapPanics(sp) THEN "index out of range" ELSE @]}
        ELSE LET nexts ==
                     IF Len(sp.path) > 0 THEN {sp.path[1]}
                     ELSE {IF e = 0 THEN sp.anim_node ELSE Anim.edges[e].dst
                              : e \in selectAnEdge(Anim, sp.anim_node, {""})}
                 rest == IF Len(sp.path) > 0 THEN Tail(sp.path) ELSE sp.path
             IN  UNION {
                     LET face == EdgeFacing(Anim, edgeTo(sp.anim_node, next))
                         sp2 == [sp EXCEPT
                                   !.path = rest,
                                   !.facing = IF face # 0
                                              THEN GoMod(@ + face + NumFacings, NumFacings)
                                              ELSE @,
                                   !.anim_node = next,
                                   !.togo = Anim.nodes[next].time]
                         w2 == doTrigger(Enter([w EXCEPT !.sprites[s] = sp2],
                                               next, dt - sp.togo), sp2)
                     IN  IF fuel = 0 THEN {[w2 EXCEPT !.fault = "stack overflow"]}
                         ELSE Think(w2, s, dt - sp.togo, fuel - 1)
                     : next \in nexts }

\* Lines 892-925: the frame lasts, or the sprite moves on and thinks again
Advance(w, s, dt, fuel) ==
    LET sp == ShortCircuit(w.sprites[s])
    IN  IF sp.togo >= dt
        THEN {[w EXCEPT !.sprites[s] = SwapFacing([sp EXCEPT !.togo = @ - dt]),
                        !.fault = IF SwapPanics(sp) THEN "index out of range" ELSE @]}
        ELSE LET nexts ==
                     IF Len(sp.path) > 0 THEN {sp.path[1]}
                     ELSE {IF e = 0 THEN sp.anim_node ELSE Anim.edges[e].dst
                              : e \in selectAnEdge(Anim, sp.anim_node, {""})}
                 rest == IF Len(sp.path) > 0 THEN Tail(sp.path) ELSE sp.path
             IN  UNION {
                     LET face == EdgeFacing(Anim, edgeTo(sp.anim_node, next))
                         sp2 == [sp EXCEPT
                                   !.path = rest,
                                   !.facing = IF face # 0
                                              THEN GoMod(@ + face + NumFacings, NumFacings)
                                              ELSE @,
                                   !.anim_node = next,
                                   !.togo = Anim.nodes[next].time]
                         w2 == doTrigger(Enter([w EXCEPT !.sprites[s] = sp2],
                                               next, dt - sp.togo), sp2)
                     IN  IF fuel = 0 THEN {[w2 EXCEPT !.fault = "stack overflow"]}
                         ELSE Think(w2, s, dt - sp.togo, fuel - 1)
                     : next \in nexts }

\* Lines 856-925, the body the deferred func is wrapped around
ThinkBody(w, s, dt, fuel) ==
    UNION { IF r.w.fault # "none" THEN {r.w}
            ELSE Advance(ApplyCmd(r, s), s, dt, fuel)
            : r \in ResolveCmd(w, s, dt) }

\* s.Think(dt) as it would be without the return on dt < 0
Think_NoReject(w, s, dt, fuel) ==
    LET sp == w.sprites[s]
        first == IF sp.thinks = 0
                 THEN [Load(sp, 0) EXCEPT !.togo = Anim.nodes[sp.anim_node].time]
                 ELSE sp
        w1 == [w EXCEPT !.sprites[s] = [first EXCEPT !.thinks = @ + 1]]
    IN  {Deferred(w2, s) : w2 \in ThinkBody(w1, s, dt, fuel)}

\* s.Think(dt): every world it can end in
Think(w, s, dt, fuel) ==
    LET sp == w.sprites[s]
        first == IF sp.thinks = 0
                 THEN [Load(sp, 0) EXCEPT !.togo = Anim.nodes[sp.anim_node].time]
                 ELSE sp
        w1 == [w EXCEPT !.sprites[s] = [first EXCEPT !.thinks = @ + 1]]
    IN  IF dt < 0 THEN {w1}
        ELSE {Deferred(w2, s) : w2 \in ThinkBody(w1, s, dt, fuel)}

(***************************************************************************)
(* Snapshots.                                                              *)
(***************************************************************************)
GetSpriteState(sp) ==
    [Facing |-> sp.facing,
     State_node_id |-> NodeId(sp.state_node),
     Anim_node_id |-> NodeId(sp.anim_node)]

\* SetSpriteState as it would be if it kept the pending commands
SetSpriteState_KeepsQueue(sp, state) ==
    IF Len(sp.waiters) # 0 THEN [sp |-> sp, err |-> TRUE]
    ELSE LET faced ==
                 IF sp.thinks = 0
                 THEN Load([sp EXCEPT !.prev_facing = sp.facing,
                                      !.facing = state.Facing,
                                      !.state_facing = state.Facing], state.Facing)
                 ELSE IF state.Facing # sp.facing
                 THEN Load([sp EXCEPT !.facing = state.Facing,
                                      !.state_facing = state.Facing], state.Facing)
                 ELSE sp
         IN  [sp |-> [faced EXCEPT !.anim_node = NodeAt(Anim, state.Anim_node_id),
                                   !.state_node = NodeAt(State, state.State_node_id),
                                   !.path = <<>>],
              err |-> FALSE]

\* SetSpriteState as it would be without the test for registered waiters
SetSpriteState_IgnoresWaiters(sp, state) ==
    LET faced ==
            IF sp.thinks = 0
            THEN Load([sp EXCEPT !.prev_facing = sp.facing,
                                 !.facing = state.Facing,
                                 !.state_facing = state.Facing], state.Facing)
            ELSE IF state.Facing # sp.facing
            THEN Load([sp EXCEPT !.facing = state.Facing,
                                 !.state_facing = state.Facing], state.Facing)
            ELSE sp
    IN  [sp |-> [faced EXCEPT !.anim_node = NodeAt(Anim, state.Anim_node_id),
                              !.state_node = NodeAt(State, state.State_node_id),
                              !.path = <<>>,
                              !.pending_cmds = <<>>],
         err |-> FALSE]

\* SetSpriteState as it would be if state.Facing were applied as a turn
SetSpriteState_FacingAsDelta(sp, state) ==
    IF Len(sp.waiters) # 0 THEN [sp |-> sp, err |-> TRUE]
    ELSE LET to == GoMod(sp.facing + state.Facing, NumFacings)
             faced == IF sp.thinks = 0 \/ to # sp.facing
                      THEN Load([sp EXCEPT !.facing = to, !.state_facing = to], to)
                      ELSE sp
         IN  [sp |-> [faced EXCEPT !.anim_node = NodeAt(Anim, state.Anim_node_id),
                                   !.state_node = NodeAt(State, state.State_node_id),
                                   !.path = <<>>,
                                   !.pending_cmds = <<>>],
              err |-> FALSE]

\* s.SetSpriteState(state): the sprite after the call; err: an error was returned
SetSpriteState(sp, state) ==
    IF Len(sp.waiters) # 0 THEN [sp |-> sp, err |-> TRUE]
    ELSE LET faced ==
                 IF sp.thinks = 0
                 THEN Load([sp EXCEPT !.prev_facing = sp.facing,
                                      !.facing = state.Facing,
                                      !.state_facing = state.Facing], state.Facing)
                 ELSE IF state.Facing # sp.facing
                 THEN Load([sp EXCEPT !.facing = state.Facing,
                                      !.state_facing = state.Facing], state.Facing)
                 ELSE sp
         IN  [sp |-> [faced EXCEPT !.anim_node = NodeAt(Anim, state.Anim_node_id),
                                   !.state_node = NodeAt(State, state.State_node_id),
                                   !.path = <<>>,
                                   !.pending_cmds = <<>>],
              err |-> FALSE]

(***************************************************************************)
(* The operations as actions.                                              *)
(***************************************************************************)
\* MakeManager(): an unlocked mutex (0: no holder) and an empty map; built
\* counts the constructions of shared sprite data, per path
\* MakeManager: an unlocked mutex and an empty map, kept as the set of its
\* entries [path, ss].  History: built, the shared sprites constructed so far.
NoManager == [mutex |-> 0, shared |-> {}, built |-> <<>>]

NoSnap == [Facing |-> -1, State_node_id |-> -1, Anim_node_id |-> -1]

OpRec(name, s, dt, names, ok, fired, blocked, snap) ==
    [name |-> name, s |-> s, dt |-> dt, names |-> names, ok |-> ok,
     fired |-> fired, entered |-> <<>>, blocked |-> blocked, snap |-> snap,
     returned |-> <<>>]

NoOp == OpRec("none", 0, 0, <<>>, TRUE, <<>>, FALSE, NoSnap)

\* The values of dt the callers pass to Think
Deltas == {0 - 1, 0, 80, 130, 200}

Running == fault = "none"

\* One more operation, while the model's budget of operations lasts
Budget(n) == steps < n /\ steps' = steps + 1

\* s.Command(name) and s.CommandN(names) both hand an ungrouped command to
\* baseCommand and drop its result.
Intake(opname, s, names) ==
    /\ Running
    /\ Len(sprites[s].pending_cmds) < MaxPending
    /\ \E r \in baseCommand(sprites[s], Cmd(names, 0)) :
          /\ sprites' = [sprites EXCEPT ![s] = r.sp]
          /\ fault' = r.fault
          /\ op' = OpRec(opname, s, 0, names, r.ok, <<>>, FALSE, NoSnap)
    /\ UNCHANGED <<gid, groups, chans>>

Command(s, name) ==
    /\ Budget(MaxOps)
    /\ <<name>> \in G.cmds
    /\ Intake("Command", s, <<name>>)
    /\ UNCHANGED <<trace, clock, mgr, thr>>

CommandN(s, names) ==
    /\ Budget(MaxOps)
    /\ names \in G.cmds
    /\ Len(names) # 1
    /\ Intake("CommandN", s, names)
    /\ UNCHANGED <<trace, clock, mgr, thr>>

\* The loop of CommandSync from sprite ss[i] on; g is the new group's index.
\* A panic in baseCommand ends the loop.
RECURSIVE SyncLoop(_, _, _, _, _)
\* The loop of CommandSync as it would be if every sprite were admitted
SyncLoop_AdmitsAll(w, ss, cmds, g, i) ==
    IF i > Len(ss) \/ w.fault # "none" THEN {w}
    ELSE UNION {
            SyncLoop([w EXCEPT !.sprites[ss[i]] = r.sp,
                               !.fault = r.fault,
                               !.returned = Append(@, IF r.fault # "none" THEN "panic"
                                                      ELSE IF r.ok THEN "true"
                                                      ELSE "false"),
                               !.groups[g].sprites = Append(@, ss[i])],
                     ss, cmds, g, i + 1)
            : r \in baseCommand(w.sprites[ss[i]], Cmd(cmds[i], g)) }

SyncLoop(w, ss, cmds, g, i) ==
    IF i > Len(ss) \/ w.fault # "none" THEN {w}
    ELSE UNION {
            SyncLoop([w EXCEPT !.sprites[ss[i]] = r.sp,
                               !.fault = r.fault,
                               !.returned = Append(@, IF r.fault # "none" THEN "panic"
                                                      ELSE IF r.ok THEN "true"
                                                      ELSE "false"),
                               !.groups[g].sprites = IF r.ok THEN Append(@, ss[i]) ELSE @],
                     ss, cmds, g, i + 1)
            : r \in baseCommand(w.sprites[ss[i]], Cmd(cmds[i], g)) }

AllSprites == <<1, 2>>

SyncIntake(cmds, tag) ==
    /\ Running
    /\ Len(groups) < MaxGroups
    /\ \A s \in SpriteIds : Len(sprites[s].pending_cmds) < MaxPending
    /\ \E w \in SyncLoop([World EXCEPT !.groups = Append(@, NewGroup(tag))],
                         AllSprites, cmds, Len(groups) + 1, 1) :
          /\ sprites' = w.sprites
          /\ groups' = w.groups
          /\ fault' = w.fault
          /\ op' = [OpRec("CommandSync", 0, 0, cmds,
                          Len(w.groups[Len(groups) + 1].sprites) = Len(AllSprites),
                          <<>>, FALSE, NoSnap) EXCEPT !.returned = w.returned]
    /\ UNCHANGED <<gid, chans>>

CommandSync(cmds, tag) ==
    /\ Budget(MaxOps)
    /\ cmds \in G.pairs
    /\ tag \in G.tags
    /\ SyncIntake(cmds, tag)
    /\ UNCHANGED <<trace, clock, mgr, thr>>

ThinkCall(s, dt) ==
    /\ Running
    /\ \E w \in Think(World, s, dt, ThinkFuel) :
          /\ sprites' = w.sprites
          /\ groups' = w.groups
          /\ chans' = w.chans
          /\ fault' = w.fault
          /\ op' = [OpRec("Think", s, dt, <<>>, w.fault = "none", w.fired, w.blocked,
                          NoSnap) EXCEPT !.entered = w.entered]
    /\ UNCHANGED gid

ThinkStep(s, dt) ==
    /\ Budget(MaxOps)
    /\ ThinkCall(s, dt)
    /\ UNCHANGED <<trace, clock, mgr, thr>>

\* s.Wait(states) up to its receive: the waiter is on the list, its channel empty
Wait(s, states) ==
    /\ Budget(MaxOps)
    /\ Running
    /\ Len(chans) < MaxWaiters
    /\ states \in G.waits
    /\ sprites' = [sprites EXCEPT ![s].waiters =
                      Append(@, [id |-> Len(chans) + 1, states |-> states])]
    /\ chans' = Append(chans, [buf |-> 0, sent |-> 0, recvd |-> 0])
    /\ op' = OpRec("Wait", s, 0, states, TRUE, <<>>, FALSE, NoSnap)
    /\ UNCHANGED <<gid, groups, fault, trace, clock, mgr, thr>>

\* <-w.c: the caller of Wait takes the signal and returns
WaitReturn(id) ==
    /\ Running
    /\ id \in 1..Len(chans)
    /\ chans[id].buf = 1
    /\ chans[id].recvd = 0
    /\ chans' = [chans EXCEPT ![id].buf = 0, ![id].recvd = 1]
    /\ op' = OpRec("WaitReturn", 0, 0, <<>>, TRUE, <<>>, FALSE, NoSnap)
    /\ UNCHANGED <<gid, sprites, groups, fault, steps, trace, clock, mgr, thr>>

\* The snapshots handed to SetSpriteState: the one just taken of the sprite
\* itself, and the one of a sprite fresh from LoadSprite
Snapshots(s) == {GetSpriteState(sprites[s]), GetSpriteState(NewSprite)}

Restore(s, snap) ==
    /\ Budget(MaxOps)
    /\ Running
    /\ snap \in Snapshots(s)
    /\ LET r == SetSpriteState(sprites[s], snap)
       IN  /\ \A f \in DOMAIN r.sp.loads : r.sp.loads[f] <= MaxLoads
           /\ sprites' = [sprites EXCEPT ![s] = r.sp]
           /\ op' = OpRec("SetSpriteState", s, 0, <<>>, ~r.err, <<>>, FALSE, snap)
    /\ UNCHANGED <<gid, groups, chans, fault, trace, clock, mgr, thr>>

(***************************************************************************)
(* Spec: any interleaving of the operations on two sprites that share one  *)
(* pair of graphs.                                                         *)
(***************************************************************************)
InitWith(graphs) ==
    /\ gid \in graphs
    /\ sprites = [s \in SpriteIds |-> NewSprite]
    /\ groups = <<>>
    /\ chans = <<>>
    /\ fault = "none"
    /\ op = NoOp
    /\ steps = 0
    /\ trace = <<>>
    /\ clock = 0
    /\ mgr = NoManager
    /\ thr = <<>>

Init == InitWith({2, 3})

Names == {"attack", "defend", "turn", "go", "on", "walk", "nod", "wave",
          "jab", "hook", "finish", "spin", "dash", "back"}

Next ==
    \/ \E s \in SpriteIds, name \in Names : Command(s, name)
    \/ \E s \in SpriteIds, names \in G.cmds : CommandN(s, names)
    \/ \E cmds \in G.pairs, tag \in G.tags : CommandSync(cmds, tag)
    \/ \E s \in SpriteIds, dt \in Deltas : ThinkStep(s, dt)
    \/ \E s \in SpriteIds, states \in G.waits : Wait(s, states)
    \/ \E id \in 1..MaxWaiters : WaitReturn(id)
    \/ \E s \in SpriteIds : \E snap \in Snapshots(s) : Restore(s, snap)

Spec == Init /\ [][Next]_vars

(***************************************************************************)
(* Properties.                                                             *)
(***************************************************************************)
ThinkOf(o) == o.name = "Think"

\* The sprite the last operation acted on, before and after it
Before == sprites[op'.s]
After == sprites'[op'.s]

NoEdgeFor(sp, name) ==
    \A e \in 1..Len(State.edges) :
        ~(State.edges[e].src = sp.state_node /\ State.edges[e].cmd = name)

\* C2 as stated: Think(0) never changes the animation node, the state node,
\* the number of pending commands or the facing.
C2_ThinkZeroChangesNothing ==
    [][(ThinkOf(op') /\ op'.dt = 0) =>
          /\ After.anim_node = Before.anim_node
          /\ After.state_node = Before.state_node
          /\ Len(After.pending_cmds) = Len(Before.pending_cmds)
          /\ After.facing = Before.facing]_vars

\* C2 amended: Think(0) never changes the state node or the facing; with no
\* pending command or with a path in flight it changes neither the animation
\* node nor the number of pending commands; it removes at most the head
\* command, and it moves the animation node only by snapping onto the path
\* of a grouped head command.
C2_ThinkZeroOnlyResolvesHead ==
    [][(ThinkOf(op') /\ op'.dt = 0) =>
          /\ After.state_node = Before.state_node
          /\ After.facing = Before.facing
          /\ (Len(Before.pending_cmds) = 0 \/ Len(Before.path) > 0) =>
                /\ After.anim_node = Before.anim_node
                /\ After.pending_cmds = Before.pending_cmds
          /\ (Len(Before.pending_cmds) > 0 /\ Before.pending_cmds[1].group = 0) =>
                After.anim_node = Before.anim_node
          /\ \/ After.pending_cmds = Before.pending_cmds
             \/ /\ Len(Before.pending_cmds) > 0
                /\ After.pending_cmds = Tail(Before.pending_cmds)]_vars

\* C2 witness: a Think(0) has resolved the head command into a path and left
\* the command behind it pending
C2_Witness ==
    /\ ThinkOf(op) /\ op.dt = 0 /\ fault = "none"
    /\ sprites[op.s].anim_node = Anim.start
    /\ Len(sprites[op.s].path) > 0
    /\ Len(sprites[op.s].pending_cmds) > 0

\* C3: a Command whose label is on no outgoing edge of the current state node
\* leaves the pending commands, the state node and state_facing as they were.
C3_RejectedCommandChangesNothing ==
    [][(op'.name = "Command" /\ NoEdgeFor(Before, op'.names[1])) =>
          /\ ~op'.ok
          /\ After.pending_cmds = Before.pending_cmds
          /\ After.state_node = Before.state_node
          /\ After.state_facing = Before.state_facing]_vars

\* C3 witness: a rejected Command on a sprite that has a command pending and
\* has left the start node of the state graph
C3_Witness ==
    /\ op.name = "Command" /\ ~op.ok /\ fault = "none"
    /\ NoEdgeFor(sprites[op.s], op.names[1])
    /\ sprites[op.s].state_node # State.start
    /\ Len(sprites[op.s].pending_cmds) > 0

\* C4: a multi-label command is all or nothing: every label is walked and
\* exactly one command is appended, or the call fails and the state node,
\* state_facing and the pending commands are unchanged; it never panics.
C4_MultiLabelAllOrNothing ==
    [][(op'.name = "CommandN") =>
          /\ fault' = "none"
          /\ \/ /\ op'.ok
                /\ After.pending_cmds = Append(Before.pending_cmds, Cmd(op'.names, 0))
             \/ /\ ~op'.ok
                /\ After.pending_cmds = Before.pending_cmds
                /\ After.state_node = Before.state_node
                /\ After.state_facing = Before.state_facing]_vars

\* The largest of a non-empty set of numbers
MaxOf(S) == CHOOSE x \in S : \A y \in S : y <= x

MemberSet(cg) == {cg.sprites[i] : i \in 1..Len(cg.sprites)}

\* C5: when a group becomes ready with pre-sync times t_1..t_k, the offset
\* stored for member i is max(t) - t_i: no offset is negative, some member
\* has offset 0, and pre-sync times 120 and 40 give the offsets 0 and 80.
C5_WaitOffsetIsMaxMinusOwn ==
    \A g \in 1..Len(groups) :
        LET cg == groups[g]
            ts == {cg.total[m] : m \in MemberSet(cg)}
        IN  cg.was_ready =>
              /\ \A m \in MemberSet(cg) :
                    /\ cg.offset[m] = MaxOf(ts) - cg.total[m]
                    /\ cg.offset[m] >= 0
              /\ \E m \in MemberSet(cg) : cg.offset[m] = 0
              /\ (cg.total[1] = 120 /\ cg.total[2] = 40) =>
                    (cg.offset[1] = 0 /\ cg.offset[2] = 80)

\* C5 witness: a group of two that became ready with pre-sync times 120 and 40
C5_Witness ==
    \E g \in 1..Len(groups) :
        /\ groups[g].was_ready
        /\ MemberSet(groups[g]) = {1, 2}
        /\ groups[g].total[1] = 120
        /\ groups[g].total[2] = 40
        /\ groups[g].offset[2] = 80

\* The states the waiter is registered for contain the animation state st
Awaits(wt, st) == \E k \in 1..Len(wt.states) : wt.states[k] = st

\* The animation states the sprite was in during the last Think
StatesEntered(o) == {Anim.nodes[o.entered[k].node].state : k \in 1..Len(o.entered)}

\* C7: a wait for S is resolved by the very Think call during which the
\* sprite's state becomes S, also when the sprite enters and leaves S inside
\* that call, and is never signalled again.
C7_ResolvedOnTheCallThatEntersS ==
    [][ThinkOf(op') =>
          \A i \in 1..Len(Before.waiters) :
              LET wt == Before.waiters[i]
              IN  /\ (\E st \in StatesEntered(op') : Awaits(wt, st)) =>
                         chans'[wt.id].sent = 1
                  /\ chans[wt.id].sent >= 1 => chans'[wt.id].sent = chans[wt.id].sent]_vars

\* C8: a Think(dt >= 0) that ends with no pending command resolves every
\* waiter whose states contain the state matched, removes exactly those from
\* the list, keeps the others, and does not panic, wherever the matching
\* waiters stand in the list.
C8_MatchingWaitersResolvedAndRemoved ==
    [][(ThinkOf(op') /\ op'.dt >= 0 /\ Len(After.pending_cmds) = 0) =>
          /\ fault' = "none"
          /\ After.waiters =
                SelectSeq(Before.waiters, LAMBDA wt : ~Awaits(wt, AnimState(After)))
          /\ \A i \in 1..Len(Before.waiters) :
                Awaits(Before.waiters[i], AnimState(After)) =>
                    chans'[Before.waiters[i].id].sent >= 1]_vars

\* C9: no waiter is ever sent more than one signal, so no send of the Think
\* loop has to wait on a full channel.
C9_AtMostOneSignal ==
    /\ \A id \in 1..Len(chans) : chans[id].sent <= 1
    /\ ~op.blocked
    /\ fault # "send blocked forever"

\* C10: with no waiter registered, SetSpriteState(GetSpriteState()) succeeds
\* and leaves the animation node, the state node and the facing as they were.
C10_SnapshotRoundTrip ==
    [][(/\ op'.name = "SetSpriteState"
        /\ op'.snap = GetSpriteState(Before)
        /\ Len(Before.waiters) = 0) =>
          /\ op'.ok
          /\ After.anim_node = Before.anim_node
          /\ After.state_node = Before.state_node
          /\ After.facing = Before.facing]_vars

\* C10 witness: a round trip taken away from both start nodes, facing 1
C10_Witness ==
    /\ op.name = "SetSpriteState" /\ op.ok
    /\ op.snap = GetSpriteState(sprites[op.s])
    /\ sprites[op.s].anim_node # Anim.start
    /\ sprites[op.s].facing = 1

(***************************************************************************)
(* SpecExample: one sprite on the graph of the worked example; trace keeps *)
(* the calls made so far.                                                  *)
(***************************************************************************)
ExDeltas == {0, 1, 30, 70}

Called(name, dt) == [op |-> name, dt |-> dt]

ExCommand ==
    /\ Budget(MaxCalls)
    /\ Intake("Command", 1, <<"walk">>)
    /\ trace' = Append(trace, Called("Command", 0))
    /\ UNCHANGED <<clock, mgr, thr>>

ExThink(dt) ==
    /\ Budget(MaxCalls)
    /\ ThinkCall(1, dt)
    /\ trace' = Append(trace, Called("Think", dt))
    /\ UNCHANGED <<clock, mgr, thr>>

InitExample == InitWith({1})

NextExample ==
    \/ ExCommand
    \/ \E dt \in ExDeltas : ExThink(dt)

SpecExample == InitExample /\ [][NextExample]_vars

WalkThenThink30 == <<Called("Command", 0), Called("Think", 30)>>

\* C1 as stated: after Command("walk"), Think(30) leaves the sprite on "idle"
\* with togo = 70, and the following Think(70) leaves it on "walking" with
\* togo = 50, the trigger of "walking" fired.
C1_Think70EntersWalking ==
    /\ trace = WalkThenThink30 =>
          /\ AnimName(sprites[1]) = "idle"
          /\ sprites[1].togo = 70
    /\ trace = Append(WalkThenThink30, Called("Think", 70)) =>
          /\ AnimName(sprites[1]) = "walking"
          /\ sprites[1].togo = 50
          /\ op.fired = <<"step">>

\* C1 amended: after Command("walk"), Think(30) leaves the sprite on "idle"
\* with togo = 70; the following Think(70) uses the frame up and leaves the
\* sprite on "idle" with togo = 0, the path to "walking" still queued and no
\* trigger fired; the next Think(dt) with 0 < dt <= 50 leaves it on "walking"
\* with togo = 50 - dt and has fired the trigger of "walking".
C1_Think70EndsIdleFrame ==
    /\ trace = WalkThenThink30 =>
          /\ AnimName(sprites[1]) = "idle"
          /\ sprites[1].togo = 70
    /\ trace = Append(WalkThenThink30, Called("Think", 70)) =>
          /\ AnimName(sprites[1]) = "idle"
          /\ sprites[1].togo = 0
          /\ sprites[1].path = <<2>>
          /\ op.fired = <<>>
    /\ \A dt \in ExDeltas :
          (/\ dt > 0 /\ dt <= 50
           /\ trace = WalkThenThink30 \o <<Called("Think", 70), Called("Think", dt)>>) =>
              /\ AnimName(sprites[1]) = "walking"
              /\ sprites[1].togo = 50 - dt
              /\ op.fired = <<"step">>

\* C1 witness: the example played to the Think after Think(70)
C1_Witness ==
    /\ trace = WalkThenThink30 \o <<Called("Think", 70), Called("Think", 30)>>
    /\ AnimName(sprites[1]) = "walking"
    /\ sprites[1].togo = 20
    /\ fault = "none"

(***************************************************************************)
(* SpecTick: two fighters on a scheduler that thinks every sprite once a   *)
(* tick with the tick's dt; clock keeps the simulated time and the times   *)
(* at which each sprite entered its first node with the sync tag.          *)
(***************************************************************************)
TickDeltas == {20, 40, 80}

NotCrossed == 0 - 1

\* The simulated time at which the Think that ended in w first entered a node
\* tagged tag, NotCrossed if it entered none
RECURSIVE CrossTime(_, _, _, _)
CrossTime(entered, tag, k, dt) ==
    IF k > Len(entered) THEN NotCrossed
    ELSE IF Anim.nodes[entered[k].node].sync = tag
         THEN clock.now + (dt - entered[k].left)
         ELSE CrossTime(entered, tag, k + 1, dt)

TickSync(cmds, tag) ==
    /\ clock.turn = 1
    /\ Len(groups) = 0
    /\ cmds \in G.pairs
    /\ tag \in G.tags
    /\ SyncIntake(cmds, tag)
    /\ UNCHANGED <<steps, trace, clock, mgr, thr>>

TickThink(s) ==
    /\ Budget(2 * MaxTicks)
    /\ clock.turn = s
    /\ ThinkCall(s, clock.dt)
    /\ clock' = [clock EXCEPT
                   !.turn = IF s = Len(AllSprites) THEN 1 ELSE s + 1,
                   !.now = IF s = Len(AllSprites) THEN @ + clock.dt ELSE @,
                   !.cross[s] = IF @ # NotCrossed \/ Len(groups) = 0 THEN @
                                ELSE CrossTime(op'.entered, groups[1].sync_tag, 1,
                                               clock.dt)]
    /\ UNCHANGED <<trace, mgr, thr>>

InitTick ==
    /\ gid = 2
    /\ sprites = [s \in SpriteIds |-> NewSprite]
    /\ groups = <<>>
    /\ chans = <<>>
    /\ fault = "none"
    /\ op = NoOp
    /\ steps = 0
    /\ trace = <<>>
    /\ clock \in [now : {0}, turn : {1}, dt : TickDeltas,
                  cross : {<<NotCrossed, NotCrossed>>}]
    /\ mgr = NoManager
    /\ thr = <<>>

NextTick ==
    \/ \E cmds \in G.pairs, tag \in G.tags : TickSync(cmds, tag)
    \/ \E s \in SpriteIds : TickThink(s)

SpecTick == InitTick /\ [][NextTick]_vars

\* The longest frame of the animation graph
LongestFrame == MaxOf({Anim.nodes[n].time : n \in 1..Len(Anim.nodes)})

\* C6: members of a group that are all thought once per tick with the same dt
\* enter their first node with the group's sync tag at simulated times that
\* differ by at most one frame duration (the longer of a tick and the longest
\* frame of the graph is allowed here).
C6_MembersCrossTogether ==
    (clock.cross[1] # NotCrossed /\ clock.cross[2] # NotCrossed) =>
        /\ clock.cross[1] - clock.cross[2] <= Max(clock.dt, LongestFrame)
        /\ clock.cross[2] - clock.cross[1] <= Max(clock.dt, LongestFrame)

\* C11: SetSpriteState on a sprite with a waiter registered returns an error
\* and changes nothing: the sprite, waiter list included, is as before.
C11_RestoreWithWaitersRefused ==
    [][(op'.name = "SetSpriteState" /\ Len(Before.waiters) > 0) =>
          /\ ~op'.ok
          /\ After.anim_node = Before.anim_node
          /\ After.state_node = Before.state_node
          /\ After.facing = Before.facing
          /\ After.state_facing = Before.state_facing
          /\ After.path = Before.path
          /\ After.pending_cmds = Before.pending_cmds
          /\ After.waiters = Before.waiters]_vars

\* C11 witness: a refused SetSpriteState whose snapshot names another state
\* node than the sprite's, on a sprite with a command pending
C11_Witness ==
    /\ op.name = "SetSpriteState" /\ ~op.ok
    /\ Len(sprites[op.s].waiters) > 0
    /\ Len(sprites[op.s].pending_cmds) > 0
    /\ op.snap # GetSpriteState(sprites[op.s])

\* C12: after any sequence of commands, restores and Thinks the animation
\* node of every sprite is set and is a node of the animation graph.
C12_AnimNodeInGraph ==
    \A s \in SpriteIds : sprites[s].anim_node \in 1..Len(Anim.nodes)

\* C12 witness: a Think that carried the sprite over at least two nodes and
\* left it off the start node
C12_Witness ==
    /\ ThinkOf(op) /\ op.ok
    /\ Len(op.entered) >= 2
    /\ sprites[op.s].anim_node # Anim.start

\* What C13 says a Think with dt < 0 leaves alone, togo aside
NegativeThinkKeeps ==
    /\ fault' = "none"
    /\ After.anim_node = Before.anim_node
    /\ After.state_node = Before.state_node
    /\ After.facing = Before.facing
    /\ After.path = Before.path
    /\ After.pending_cmds = Before.pending_cmds
    /\ After.waiters = Before.waiters
    /\ groups' = groups
    /\ chans' = chans

\* C13 as stated: Think(dt) with dt < 0 changes nothing on any call, the very
\* first included: togo too is as before.
C13_NegativeThinkIsNoOp ==
    [][(ThinkOf(op') /\ op'.dt < 0) =>
          (NegativeThinkKeeps /\ After.togo = Before.togo)]_vars

\* C13 amended: Think(dt) with dt < 0 raises no error and leaves animation
\* node, state node, facing, path, pending commands, group countdowns and
\* waiters unchanged; togo is unchanged on every call but the sprite's first
\* Think, which sets togo to the duration of the current animation node.
C13_NegativeThinkKeepsPosition ==
    [][(ThinkOf(op') /\ op'.dt < 0) =>
          /\ NegativeThinkKeeps
          /\ After.togo = IF Before.thinks = 0
                          THEN Anim.nodes[Before.anim_node].time
                          ELSE Before.togo]_vars

\* C13 witness: a Think(dt < 0), not the first, on a sprite part-way through
\* a frame with a path in flight
C13_Witness ==
    /\ ThinkOf(op) /\ op.dt < 0
    /\ sprites[op.s].thinks > 1
    /\ Len(sprites[op.s].path) > 0
    /\ sprites[op.s].togo > 0
    /\ sprites[op.s].togo < Anim.nodes[sprites[op.s].anim_node].time

\* A call of ready() on group g now returns true and changes nothing
LatchHolds(g) == \A r \in ready(World, g) : r.ready /\ r.w = World

\* Every member of group g has no path in flight and has the group's command
\* at the head of its pending commands
EveryMemberWaiting(g) ==
    \A s \in MemberSet(groups[g]) :
        /\ sprites[s].path = <<>>
        /\ sprites[s].pending_cmds # <<>>
        /\ Head(sprites[s].pending_cmds).group = g

\* C14: ready() is a sticky latch: once it has returned true the group stays
\* ready, every later call returns true whatever has become of the members'
\* paths and pending commands, and the wait offsets and the paths computed
\* by the first such call are never computed again.
C14_ReadyIsSticky ==
    [][/\ \A g \in 1..Len(groups) :
              groups[g].was_ready =>
                 /\ groups'[g].was_ready
                 /\ groups'[g].paths = groups[g].paths
                 /\ groups'[g].offset = groups[g].offset
                 /\ groups'[g].total = groups[g].total
       /\ \A g \in 1..Len(groups') :
              groups'[g].was_ready => LatchHolds(g)']_vars

\* C14 witness: both members of a ready group have started the command, each
\* in a Think of its own, so the later Think called ready() after the earlier
\* member had dequeued
C14_Witness ==
    /\ ThinkOf(op)
    /\ \E g \in 1..Len(groups) :
          /\ groups[g].was_ready
          /\ MemberSet(groups[g]) = {1, 2}
          /\ \A s \in {1, 2} : sprites[s].pending_cmds = <<>> /\ sprites[s].thinks > 0
          /\ ~EveryMemberWaiting(g)

\* C15: no Think of a member removes or starts the grouped command, and
\* ready() stores no offsets and no paths, until there has been a moment at
\* which every member at once had no path in flight and the group's command
\* at the head of its pending commands.
C15_NoStartBeforeAllWaiting ==
    [][\A g \in 1..Len(groups) :
          /\ groups'[g].was_ready =>
                \A s \in MemberSet(groups'[g]) :
                    /\ groups'[g].seen[s].path = <<>>
                    /\ groups'[g].seen[s].pending_cmds # <<>>
                    /\ Head(groups'[g].seen[s].pending_cmds).group = g
          /\ ~groups'[g].was_ready =>
                /\ groups'[g].paths = [s \in SpriteIds |-> <<>>]
                /\ groups'[g].eta = [s \in SpriteIds |-> 0]
                /\ groups'[g].offset = [s \in SpriteIds |-> 0]
                /\ (/\ ThinkOf(op')
                    /\ Before.pending_cmds # <<>>
                    /\ Head(Before.pending_cmds).group = g) =>
                       /\ After.pending_cmds = Before.pending_cmds
                       /\ \E k \in 0..Len(Before.path) :
                              After.path = SubSeq(Before.path, k + 1, Len(Before.path))]_vars

\* C15 witness: a member whose next command is the group's has thought for a
\* while, and the group is not ready because the other member is busy
C15_Witness ==
    /\ ThinkOf(op) /\ op.dt > 0
    /\ \E g \in 1..Len(groups) :
          /\ ~groups[g].was_ready
          /\ MemberSet(groups[g]) = {1, 2}
          /\ sprites[op.s].pending_cmds # <<>>
          /\ Head(sprites[op.s].pending_cmds).group = g
          /\ sprites[op.s].path = <<>>
          /\ ~EveryMemberWaiting(g)

\* The sprites baseCommand accepted, in the order CommandSync asked them
Accepted(o) ==
    SelectSeq(AllSprites, LAMBDA s : s <= Len(o.returned) /\ o.returned[s] = "true")

\* C17: after CommandSync the new group's members are exactly the sprites
\* whose baseCommand succeeded, each with one new pending command of the
\* group; a sprite that rejected its command keeps its state node and its
\* pending commands and is no member, so that the group becomes ready as soon
\* as a member thinks while every member is waiting.
C17_GroupAdmitsWhoAccepted ==
    [][/\ op'.name = "CommandSync" =>
            LET g == Len(groups')
            IN  /\ g = Len(groups) + 1
                /\ groups'[g].sprites = Accepted(op')
                /\ \A s \in 1..Len(op'.returned) :
                      /\ op'.returned[s] = "true" =>
                            sprites'[s].pending_cmds =
                               Append(sprites[s].pending_cmds, Cmd(op'.names[s], g))
                      /\ op'.returned[s] = "false" =>
                            /\ sprites'[s].state_node = sprites[s].state_node
                            /\ sprites'[s].pending_cmds = sprites[s].pending_cmds
                            /\ ~IsMember(groups'[g], s)
       /\ \A g \in 1..Len(groups) :
            (/\ ThinkOf(op') /\ op'.dt >= 0
             /\ op'.s \in MemberSet(groups[g])
             /\ EveryMemberWaiting(g)) => groups'[g].was_ready]_vars

\* C17 witness: a group of one became ready while the sprite that rejected
\* its command has no command of the group pending
C17_Witness ==
    /\ ThinkOf(op)
    /\ \E g \in 1..Len(groups) :
          /\ groups[g].was_ready
          /\ groups[g].sprites = <<1>>
          /\ sprites[2].pending_cmds = <<Cmd(<<"defend">>, 0)>>
          /\ State_(sprites[2]) = "defending"

(***************************************************************************)
(* SpecNoPath: the operations of Spec on the gesture graphs, where a       *)
(* command the state graph accepts can have no animation path.             *)
(***************************************************************************)
InitNoPath == InitWith({4})

SpecNoPath == InitNoPath /\ [][Next]_vars

\* Path resolution yields the empty path for the command cmd from node
NoAnimPath(cmd, node) == findPathForCmd(cmd, node) = {<<>>}

\* C18: when the head command has no animation path, Think(dt >= 0) ends
\* without fault, for an ungrouped command and for a grouped command whose
\* group is ready, and leaves the sprite on a node of the animation graph
\* (sprites with no waiter registered, whose signalling C8 is about).
C18_NoPathDoesNotFailTheFrame ==
    [][(/\ ThinkOf(op') /\ op'.dt >= 0
        /\ Before.path = <<>>
        /\ Before.pending_cmds # <<>>
        /\ Before.waiters = <<>>
        /\ NoAnimPath(Head(Before.pending_cmds), Before.anim_node)
        /\ \/ Head(Before.pending_cmds).group = 0
           \/ groups'[Head(Before.pending_cmds).group].was_ready) =>
          /\ fault' = "none"
          /\ After.anim_node \in 1..Len(Anim.nodes)]_vars

\* C19: a successful SetSpriteState leaves the sprite with no pending command
\* and no path, on the animation node and the state node and with the facing
\* the snapshot names, and changes nothing on any other sprite.
C19_RestoreResetsQueueAndPath ==
    [][(op'.name = "SetSpriteState" /\ op'.ok) =>
          /\ After.pending_cmds = <<>>
          /\ After.path = <<>>
          /\ GetSpriteState(After) = op'.snap
          /\ \A s \in SpriteIds \ {op'.s} : sprites'[s] = sprites[s]
          /\ groups' = groups /\ chans' = chans]_vars

\* C19 witness: a sprite that had turned to facing 1 was restored to the
\* snapshot of a fresh sprite while the other sprite had a command pending
C19_Witness ==
    /\ op.name = "SetSpriteState" /\ op.ok
    /\ op.snap = GetSpriteState(NewSprite)
    /\ sprites[op.s].thinks > 0
    /\ sprites[op.s].facing = 0
    /\ sprites[op.s].prev_facing = 1

(***************************************************************************)
(* SpecLoad: goroutines calling Manager.LoadSprite concurrently, one step  *)
(* per lock operation and per statement between them.                      *)
(***************************************************************************)
\* The paths callers hand in, as their segments
RawPaths == { <<"a">>, <<".", "a">>, <<"a", ".">>, <<"b">> }

\* filepath.Clean, on these paths: the "." segments are dropped
Clean(raw) == SelectSeq(raw, LAMBDA seg : seg # ".")

\* _, ok := m.shared[path]
Cached(m, path) == \E e \in m.shared : e.path = path

\* m.shared[path]; 0 is the nil *sharedSprite of a missing key
Lookup(m, path) ==
    IF Cached(m, path) THEN (CHOOSE e \in m.shared : e.path = path).ss ELSE 0

\* m.shared[path] = ss
Store(m, path, ss) ==
    [m EXCEPT !.shared = {e \in @ : e.path # path} \cup {[path |-> path, ss |-> ss]}]

\* m.mutex.Lock() with every caller let through whatever the mutex says
CanLock_Always(m) == TRUE

\* m.mutex.Lock() returns only while nobody holds the mutex
CanLock(m) == m.mutex = 0

InitLoad == InitWith({2})

At(t, pc) == t \in 1..Len(thr) /\ thr[t].pc = pc

Goto(t, pc) == [thr EXCEPT ![t].pc = pc]

LoadFrame == UNCHANGED <<gid, sprites, groups, chans, fault, op, steps, trace, clock>>

\* A goroutine enters m.LoadSprite(raw): path = filepath.Clean(path)
LoadSprite(raw) ==
    /\ Len(thr) < MaxCallers
    /\ thr' = Append(thr, [raw |-> raw, path |-> Clean(raw), pc |-> "lock",
                           ss |-> 0, err |-> FALSE, shared |-> 0])
    /\ UNCHANGED mgr
    /\ LoadFrame

\* loadSharedSprite: m.mutex.Lock()
SharedLock(t) ==
    /\ At(t, "lock")
    /\ CanLock(mgr)
    /\ mgr' = [mgr EXCEPT !.mutex = t]
    /\ thr' = Goto(t, "check")
    /\ LoadFrame

\* loadSharedSprite: if _, ok := m.shared[path]; ok { return nil }
SharedCheck(t) ==
    /\ At(t, "check")
    /\ thr' = Goto(t, IF Cached(mgr, thr[t].path) THEN "unlock" ELSE "construct")
    /\ UNCHANGED mgr
    /\ LoadFrame

\* loadSharedSprite: ss, err := loadSharedSprite(path), which reads the files
\* under path and can fail; if err != nil { return err }
SharedConstruct(t) ==
    /\ At(t, "construct")
    /\ \E ok \in BOOLEAN :
          IF ok
          THEN /\ mgr' = [mgr EXCEPT !.built = Append(@, thr[t].path)]
               /\ thr' = [thr EXCEPT ![t].ss = Len(mgr.built) + 1, ![t].pc = "store"]
          ELSE /\ thr' = [thr EXCEPT ![t].err = TRUE, ![t].pc = "unlock"]
               /\ UNCHANGED mgr
    /\ LoadFrame

\* loadSharedSprite: m.shared[path] = ss; ss.manager = m; return nil
SharedStore(t) ==
    /\ At(t, "store")
    /\ mgr' = Store(mgr, thr[t].path, thr[t].ss)
    /\ thr' = Goto(t, "unlock")
    /\ LoadFrame

\* loadSharedSprite: the deferred m.mutex.Unlock(); back in LoadSprite,
\* if err != nil { return nil, err }
SharedUnlock(t) ==
    /\ At(t, "unlock")
    /\ mgr' = [mgr EXCEPT !.mutex = 0]
    /\ thr' = Goto(t, IF thr[t].err THEN "failed" ELSE "lock2")
    /\ LoadFrame

\* LoadSprite: m.mutex.Lock()
FetchLock(t) ==
    /\ At(t, "lock2")
    /\ CanLock(mgr)
    /\ mgr' = [mgr EXCEPT !.mutex = t]
    /\ thr' = Goto(t, "fetch")
    /\ LoadFrame

\* LoadSprite: s.shared = m.shared[path]
Fetch(t) ==
    /\ At(t, "fetch")
    /\ thr' = [thr EXCEPT ![t].shared = Lookup(mgr, thr[t].path), ![t].pc = "unlock2"]
    /\ UNCHANGED mgr
    /\ LoadFrame

\* LoadSprite: m.mutex.Unlock(); the sprite is put on the start nodes and returned
FetchUnlock(t) ==
    /\ At(t, "unlock2")
    /\ mgr' = [mgr EXCEPT !.mutex = 0]
    /\ thr' = Goto(t, "returned")
    /\ LoadFrame

NextLoad ==
    \/ \E raw \in RawPaths : LoadSprite(raw)
    \/ \E t \in 1..MaxCallers : SharedLock(t)
    \/ \E t \in 1..MaxCallers : SharedCheck(t)
    \/ \E t \in 1..MaxCallers : SharedConstruct(t)
    \/ \E t \in 1..MaxCallers : SharedStore(t)
    \/ \E t \in 1..MaxCallers : SharedUnlock(t)
    \/ \E t \in 1..MaxCallers : FetchLock(t)
    \/ \E t \in 1..MaxCallers : Fetch(t)
    \/ \E t \in 1..MaxCallers : FetchUnlock(t)

SpecLoad == InitLoad /\ [][NextLoad]_vars

\* The constructions of the shared sprite of path that succeeded
BuiltFor(path) == {i \in 1..Len(mgr.built) : mgr.built[i] = path}

\* C16: under any interleaving of LoadSprite calls, the shared sprite of a
\* cleaned path is constructed at most once; every sprite returned for the
\* path references that one object; every cache entry holds a constructed
\* object of its path, and a caller whose construction failed leaves, as it
\* releases the mutex, no entry for the path.
C16_SharedBuiltOncePerPath ==
    /\ \A raw \in RawPaths : Cardinality(BuiltFor(Clean(raw))) <= 1
    /\ \A e \in mgr.shared : e.ss \in BuiltFor(e.path)
    /\ \A t \in 1..Len(thr) :
          /\ thr[t].pc = "returned" => thr[t].shared \in BuiltFor(thr[t].path)
          /\ (thr[t].err /\ thr[t].pc = "unlock") => ~Cached(mgr, thr[t].path)
          /\ \A u \in 1..Len(thr) :
                (/\ thr[t].pc = "returned" /\ thr[u].pc = "returned"
                 /\ thr[t].path = thr[u].path) => thr[t].shared = thr[u].shared

\* C16 witness: one caller's construction failed, and two callers that named
\* the same directory differently were returned sprites on the same object
C16_Witness ==
    /\ Len(thr) = 3
    /\ thr[1].pc = "failed" /\ thr[1].path = <<"a">>
    /\ thr[2].pc = "returned" /\ thr[3].pc = "returned"
    /\ thr[2].raw # thr[3].raw
    /\ thr[2].path = <<"a">> /\ thr[3].path = <<"a">>
    /\ thr[2].shared = thr[3].shared /\ thr[2].shared # 0

(***************************************************************************)
(* SpecRace: goroutines calling Wait on one sprite while the game loop     *)
(* calls Think(0) and SetSpriteState on it, one step per lock operation    *)
(* and per access to s.waiters.                                            *)
(***************************************************************************)
Racer == 1

InitRace == InitWith({2})

RaceFrame == UNCHANGED <<gid, groups, trace, clock, mgr>>

Routine(kind, id, states) ==
    [kind |-> kind, pc |-> IF kind = "Wait" THEN "lock" ELSE "defer",
     id |-> id, states |-> states, old |-> <<>>, i |-> 0, n |-> 0]

\* A goroutine enters s.Wait(states); w.c = make(chan struct{}, 1)
RaceWait(states) ==
    /\ Running
    /\ Len(chans) < MaxWaiters
    /\ thr' = Append(thr, Routine("Wait", Len(chans) + 1, states))
    /\ chans' = Append(chans, [buf |-> 0, sent |-> 0, recvd |-> 0])
    /\ UNCHANGED <<sprites, fault, op, steps>>
    /\ RaceFrame

\* Wait: s.waiter_mutex.Lock()
WaitLock(t) ==
    /\ Running
    /\ At(t, "lock")
    /\ sprites[Racer].waiter_mutex = 0
    /\ sprites' = [sprites EXCEPT ![Racer].waiter_mutex = t]
    /\ thr' = Goto(t, "append")
    /\ UNCHANGED <<chans, fault, op, steps>>
    /\ RaceFrame

\* Wait: s.waiters = append(s.waiters, &w)
WaitAppend(t) ==
    /\ Running
    /\ At(t, "append")
    /\ sprites' = [sprites EXCEPT ![Racer].waiters =
                      Append(@, [id |-> thr[t].id, states |-> thr[t].states])]
    /\ thr' = Goto(t, "unlock")
    /\ UNCHANGED <<chans, fault, op, steps>>
    /\ RaceFrame

\* Wait as it would be if it went on to the receive with the mutex held
WaitUnlock_KeepsLock(t) ==
    /\ Running
    /\ At(t, "unlock")
    /\ thr' = Goto(t, "recv")
    /\ UNCHANGED <<sprites, chans, fault, op, steps>>
    /\ RaceFrame

\* Wait: s.waiter_mutex.Unlock()
WaitUnlock(t) ==
    /\ Running
    /\ At(t, "unlock")
    /\ sprites' = [sprites EXCEPT ![Racer].waiter_mutex = 0]
    /\ thr' = Goto(t, "recv")
    /\ UNCHANGED <<chans, fault, op, steps>>
    /\ RaceFrame

\* Wait: <-w.c
WaitRecv(t) ==
    /\ Running
    /\ At(t, "recv")
    /\ chans[thr[t].id].buf = 1
    /\ chans' = [chans EXCEPT ![thr[t].id].buf = 0, ![thr[t].id].recvd = 1]
    /\ thr' = Goto(t, "done")
    /\ UNCHANGED <<sprites, fault, op, steps>>
    /\ RaceFrame

\* Lines 827-926 of s.Think(dt) without the deferred func
ThinkUndeferred(w, s, dt) ==
    LET sp == w.sprites[s]
        first == IF sp.thinks = 0
                 THEN [Load(sp, 0) EXCEPT !.togo = Anim.nodes[sp.anim_node].time]
                 ELSE sp
        w1 == [w EXCEPT !.sprites[s] = [first EXCEPT !.thinks = @ + 1]]
    IN  ThinkBody(w1, s, dt, ThinkFuel)

\* The game loop calls s.Think(0) and comes to the deferred func
RaceThink ==
    /\ Budget(MaxOps)
    /\ Running
    /\ \A t \in 1..Len(thr) : thr[t].kind = "Think" => thr[t].pc = "done"
    /\ \E w \in ThinkUndeferred(World, Racer, 0) :
          /\ sprites' = w.sprites
          /\ fault' = w.fault
    /\ thr' = Append(thr, Routine("Think", 0, <<>>))
    /\ UNCHANGED <<chans, op>>
    /\ RaceFrame

\* Deferred func: if s.NumPendingCmds() > 0 { return }; for i := range
\* s.waiters, which takes the length of the list once.  No lock is taken.
DeferEnter(t) ==
    /\ Running
    /\ At(t, "defer")
    /\ thr' = IF NumPendingCmds(sprites[Racer]) > 0 THEN Goto(t, "done")
              ELSE [thr EXCEPT ![t].pc = "loop", ![t].i = 1,
                               ![t].n = Len(sprites[Racer].waiters)]
    /\ UNCHANGED <<sprites, chans, fault, op, steps>>
    /\ RaceFrame

\* Deferred func, lines 844-849 of one iteration: s.waiters[i] is signalled
\* once per matching state and its states are set to nil
DeferSignal(t) ==
    /\ Running
    /\ At(t, "loop")
    /\ LET i == thr[t].i
           ws == sprites[Racer].waiters
       IN  IF i > thr[t].n
           THEN /\ thr' = Goto(t, "done")
                /\ UNCHANGED <<sprites, chans, fault>>
           ELSE IF i > Len(ws)
           THEN /\ fault' = "index out of range"
                /\ thr' = Goto(t, "done")
                /\ UNCHANGED <<sprites, chans>>
           ELSE LET cur == AnimState(sprites[Racer])
                    w == SendHits(World, ws[i].id, ws[i].states, cur)
                IN  /\ chans' = w.chans
                    /\ fault' = w.fault
                    /\ sprites' = IF Awaits(ws[i], cur)
                                  THEN [sprites EXCEPT ![Racer].waiters[i].states = <<>>]
                                  ELSE sprites
                    /\ thr' = Goto(t, "choose")
    /\ UNCHANGED <<op, steps>>
    /\ RaceFrame

\* Deferred func, line 850: algorithm.Choose reads the list behind &s.waiters
DeferChoose(t) ==
    /\ Running
    /\ At(t, "choose")
    /\ thr' = [thr EXCEPT ![t].old = sprites[Racer].waiters, ![t].pc = "keep"]
    /\ UNCHANGED <<sprites, chans, fault, op, steps>>
    /\ RaceFrame

\* Deferred func, line 850: algorithm.Choose stores the waiters it kept
DeferKeep(t) ==
    /\ Running
    /\ At(t, "keep")
    /\ sprites' = [sprites EXCEPT ![Racer].waiters = Choose(thr[t].old)]
    /\ thr' = [thr EXCEPT ![t].i = @ + 1, ![t].pc = "loop"]
    /\ UNCHANGED <<chans, fault, op, steps>>
    /\ RaceFrame

\* The game loop calls s.SetSpriteState, which reads len(s.waiters) unlocked
RaceRestore(snap) ==
    /\ \A t \in 1..Len(thr) : thr[t].kind = "Think" => thr[t].pc = "done"
    /\ Restore(Racer, snap)

NextRace ==
    \/ \E states \in G.waits : RaceWait(states)
    \/ \E t \in 1..Len(thr) : WaitLock(t)
    \/ \E t \in 1..Len(thr) : WaitAppend(t)
    \/ \E t \in 1..Len(thr) : WaitUnlock(t)
    \/ \E t \in 1..Len(thr) : WaitRecv(t)
    \/ RaceThink
    \/ \E t \in 1..Len(thr) : DeferEnter(t)
    \/ \E t \in 1..Len(thr) : DeferSignal(t)
    \/ \E t \in 1..Len(thr) : DeferChoose(t)
    \/ \E t \in 1..Len(thr) : DeferKeep(t)
    \/ \E snap \in Snapshots(Racer) : RaceRestore(snap)

SpecRace == InitRace /\ [][NextRace]_vars

\* The waiter of goroutine t is on the sprite's list
Listed(t) ==
    \E k \in 1..Len(sprites[Racer].waiters) : sprites[Racer].waiters[k].id = thr[t].id

\* C20: under any interleaving of Wait with Think and SetSpriteState no
\* registered waiter is lost: a caller of Wait that has registered and has
\* not been sent its signal is on the sprite's waiter list.
C20_NoRegisteredWaiterLost ==
    \A t \in 1..Len(thr) :
        (/\ thr[t].kind = "Wait" /\ thr[t].pc = "recv"
         /\ chans[thr[t].id].sent = 0) => Listed(t)

(***************************************************************************)
(* SpecCombo: the operations of Spec on the boxer's graphs, whose          *)
(* animation graph has a group with an edge of its own and frames of       *)
(* duration 0.                                                             *)
(***************************************************************************)
InitCombo == InitWith({5})

SpecCombo == InitCombo /\ [][Next]_vars

(***************************************************************************)
(* SpecLock: SpecRace without SetSpriteState, every caller of Wait waiting *)
(* for the state the sprite is in.                                         *)
(***************************************************************************)
LockWaits == {w \in G.waits : w = <<AnimState(NewSprite)>>}

NextLock ==
    \/ \E states \in LockWaits : RaceWait(states)
    \/ \E t \in 1..Len(thr) : WaitLock(t)
    \/ \E t \in 1..Len(thr) : WaitAppend(t)
    \/ \E t \in 1..Len(thr) : WaitUnlock(t)
    \/ \E t \in 1..Len(thr) : WaitRecv(t)
    \/ RaceThink
    \/ \E t \in 1..Len(thr) : DeferEnter(t)
    \/ \E t \in 1..Len(thr) : DeferSignal(t)
    \/ \E t \in 1..Len(thr) : DeferChoose(t)
    \/ \E t \in 1..Len(thr) : DeferKeep(t)

SpecLock == InitRace /\ [][NextLock]_vars

\* The goroutine t is suspended in Wait on its receive, not yet signalled
Suspended(t) ==
    /\ t \in 1..Len(thr)
    /\ thr[t].kind = "Wait" /\ thr[t].pc = "recv"
    /\ chans[thr[t].id].buf = 0

\* C21: Wait does not hold the waiter lock while it is blocked: the lock is
\* held only by a caller of Wait between its Lock and its Unlock, so a caller
\* that has come to the lock can take it once that one has unlocked, and a
\* Think on the sprite that has not ended always has its next step to take.
C21_LockNotHeldWhileBlocked ==
    LET h == sprites[Racer].waiter_mutex
    IN  /\ h # 0 => /\ h \in 1..Len(thr)
                    /\ thr[h].kind = "Wait"
                    /\ thr[h].pc \in {"append", "unlock"}
        /\ \A t \in 1..Len(thr) :
              /\ Suspended(t) => h # t
              /\ (Running /\ At(t, "lock") /\ h = 0) => ENABLED WaitLock(t)
              /\ (Running /\ thr[t].kind = "Think" /\ thr[t].pc # "done") =>
                    ENABLED (DeferEnter(t) \/ DeferSignal(t) \/ DeferChoose(t)
                             \/ DeferKeep(t))

\* C21 witness: while one caller was suspended in Wait a second one
\* registered and is suspended too, and a Think called after both has ended
C21_Witness ==
    /\ Running
    /\ Len(thr) = 3
    /\ Suspended(1) /\ Suspended(2) /\ Listed(1) /\ Listed(2)
    /\ thr[3].kind = "Think" /\ thr[3].pc = "done"
    /\ sprites[Racer].waiter_mutex = 0

\* The head command of the sprite is a command of group g
HeadOf(sp, g) == sp.pending_cmds # <<>> /\ Head(sp.pending_cmds).group = g

\* C22: a member of a ready group with wait offset w does not snap onto its
\* path (its grouped command stays pending) before the dt handed to its
\* Think calls since readiness add up to w: a first Think(dt) since
\* readiness with dt < w leaves the command pending, also when that call
\* crosses nodes while the member waits.
C22_NoSnapBeforeOffsetElapsed ==
    [][\A g \in 1..Len(groups) :
          (/\ ThinkOf(op') /\ op'.dt >= 0
           /\ HeadOf(Before, g) /\ Before.path = <<>>
           /\ groups'[g].was_ready
           /\ groups[g].was_ready => groups[g].eta[op'.s] = groups[g].offset[op'.s]
           /\ op'.dt < groups'[g].offset[op'.s]) =>
              After.pending_cmds = Before.pending_cmds]_vars

\* The time left on the frame when the call begins: the first Think of a
\* sprite starts the frame of its node
TogoAtCall(sp) == IF sp.thinks = 0 THEN Anim.nodes[sp.anim_node].time ELSE sp.togo

\* The time the call spent on the nodes it left: what was left of the first,
\* the whole duration of each node entered and left again
RECURSIVE SpentOnLeft(_, _)
SpentOnLeft(entered, k) ==
    IF k >= Len(entered) THEN 0
    ELSE Anim.nodes[entered[k].node].time + SpentOnLeft(entered, k + 1)

\* The nodes the sprite was on during the operation o
Visited(o, sp) == {sp.anim_node} \cup {o.entered[k].node : k \in 1..Len(o.entered)}

\* C23: a Think(dt), dt >= 0, on a sprite with no grouped command and no
\* group short-circuit accounts for exactly dt: what was left of the nodes it
\* left plus what it took from the last node's time is dt, and afterwards
\* 0 <= togo <= duration of the current node.
C23_ThinkAccountsForDt ==
    [][(/\ ThinkOf(op') /\ op'.dt >= 0 /\ fault' = "none"
        /\ \A k \in 1..Len(Before.pending_cmds) : Before.pending_cmds[k].group = 0
        /\ \A n \in Visited(op', Before) : Anim.nodes[n].group = 0) =>
          /\ IF op'.entered = <<>>
             THEN TogoAtCall(Before) - After.togo = op'.dt
             ELSE TogoAtCall(Before) + SpentOnLeft(op'.entered, 1)
                     + (Anim.nodes[After.anim_node].time - After.togo) = op'.dt
          /\ 0 <= After.togo
          /\ After.togo <= Anim.nodes[After.anim_node].time]_vars

\* C24: Think(dt), dt >= 0, ends after finitely many node transitions, also
\* on a node with no unlabeled outgoing edge and on a loop of nodes of
\* duration 0: the recursion of Think never outruns the stack.
C24_ThinkTerminates ==
    [][(ThinkOf(op') /\ op'.dt >= 0) => fault' # "stack overflow"]_vars

(***************************************************************************)
(* SpecPath: the path finder on its own.  Each step is one call of         *)
(* findPathForCmd or findPathForSyncedCmd on one of the six graphs, from a *)
(* node a sprite can rest on, for a command the sheet's callers send; thr  *)
(* keeps the call and what it returned.                                    *)
(***************************************************************************)
InitPath == InitWith(1..6)

\* The anim nodes a sprite can rest on: those that are not group containers
Frames == {n \in 1..Len(Anim.nodes) :
              \A m \in 1..Len(Anim.nodes) : Anim.nodes[m].group # n}

\* The commands handed to the path finder: one accepted label, or a sequence
Labels == {State.edges[i].cmd : i \in 1..Len(State.edges)}
PathCmds == {<<l>> : l \in Labels} \cup G.cmds

PathFrame == UNCHANGED <<gid, sprites, groups, chans, fault, op, trace, clock, mgr>>

FindPath(node, names) ==
    /\ Budget(MaxOps)
    /\ \E path \in findPathForCmd(Cmd(names, 0), node) :
          thr' = << [kind |-> "findPathForCmd", node |-> node, names |-> names,
                     tag |-> "", path |-> path] >>
    /\ PathFrame

FindSynced(node, names, tag) ==
    /\ Budget(MaxOps)
    /\ \E path \in findPathForSyncedCmd(Cmd(names, 1), node, tag) :
          thr' = << [kind |-> "findPathForSyncedCmd", node |-> node, names |-> names,
                     tag |-> tag, path |-> path] >>
    /\ PathFrame

NextPath ==
    \/ \E node \in Frames, names \in PathCmds : FindPath(node, names)
    \/ \E node \in Frames, names \in PathCmds, tag \in G.tags : FindSynced(node, names, tag)

SpecPath == InitPath /\ [][NextPath]_vars

\* The calls of fn kept in thr
Calls(fn) == {k \in 1..Len(thr) : thr[k].kind = fn}

\* pathingGraph.Adjacent follows an edge from a to b for label: a group-output
\* edge of a whose cmd is empty or label
Admissible(a, b, label) ==
    \E i \in 1..Len(GroupOutputs(Anim, a)) :
        LET edge == Anim.edges[GroupOutputs(Anim, a)[i]]
        IN  edge.dst = b /\ edge.cmd \in {"", label}

\* The nodes one or more admissible edges away from the nodes of from
RECURSIVE Beyond(_, _, _)
Beyond(from, label, fuel) ==
    LET step == {b \in 1..Len(Anim.nodes) : \E a \in from : Admissible(a, b, label)}
    IN  IF fuel = 0 THEN {} ELSE step \cup Beyond(step, label, fuel - 1)

\* A destination of label lies one or more admissible edges away from node
AwayFrom(node, label) ==
    \E d \in Beyond({node}, label, Len(Anim.nodes)) :
        \E i \in 1..Len(Anim.edges) : Anim.edges[i].cmd = label /\ Anim.edges[i].dst = d

\* path leads from node by admissible edges to a destination of label
Leads(node, path, label) ==
    /\ Admissible(node, path[1], label)
    /\ \A i \in 1..(Len(path) - 1) : Admissible(path[i], path[i + 1], label)
    /\ \E i \in 1..Len(Anim.edges) :
          Anim.edges[i].cmd = label /\ Anim.edges[i].dst = Last(path)

RECURSIVE Routes(_, _, _)
Routes(front, label, fuel) ==
    LET next == UNION { {Append(p, b) : b \in {n \in 1..Len(Anim.nodes) :
                                                   /\ Admissible(Last(p), n, label)
                                                   /\ \A i \in 1..Len(p) : p[i] # n}}
                        : p \in front }
    IN  IF fuel = 0 \/ next = {} THEN front
        ELSE front \cup Routes(next, label, fuel - 1)

\* The admissible paths from node to a destination of label
RoutesTo(node, label) ==
    {p \in Routes({<<b>> : b \in {n \in 1..Len(Anim.nodes) : Admissible(node, n, label)}},
                  label, Len(Anim.nodes)) : Leads(node, p, label)}

\* The cost of a path when an edge leaving the group of its source is free
RECURSIVE ExitFreeCost(_, _)
ExitFreeCost(from, p) ==
    IF p = <<>> THEN 0
    ELSE Cost_GroupExitFree(from, Head(p)) + ExitFreeCost(Head(p), Tail(p))

RECURSIVE Chained(_, _, _)
Chained(names, node, sofar) ==
    IF names = <<>> THEN {sofar}
    ELSE LET from == IF sofar = <<>> THEN node ELSE Last(sofar)
         IN  UNION { Chained(Tail(names), node, sofar \o sub)
                     : sub \in Dijkstra(from, Head(names), PathEnds(Head(names))) }

\* C27: the path resolved for a command with labels l1..ln is the
\* concatenation of n sub-paths, sub-path i being a single-label path for li
\* searched from the last node of the path built so far, or from the sprite's
\* current animation node when nothing has been appended yet.
C27_SubPathsAreChained ==
    \A k \in Calls("findPathForCmd") :
        thr[k].path \in Chained(thr[k].names, thr[k].node, <<>>)

\* C27 witness: a command of two or more labels whose later sub-path starts
\* where the earlier one ended, and which a search from the node of the call
\* for every label would not give
C27_Witness ==
    \E k \in Calls("findPathForCmd") :
        /\ Len(thr[k].names) >= 2
        /\ Len(thr[k].path) >= 2
        /\ thr[k].path \notin FindPathFrom_NoReroot(thr[k].names, thr[k].node, <<>>)

\* An edge authored on a itself, with no cmd, leads from a to b
FreeEdge(a, b) ==
    \E i \in 1..Len(Anim.edges) :
        Anim.edges[i].src = a /\ Anim.edges[i].dst = b /\ Anim.edges[i].cmd = ""

\* extra is a chain of free-edge successors of tail of which the last node,
\* and no other, carries tag
SyncChain(tail, extra, tag) ==
    /\ extra # <<>>
    /\ FreeEdge(tail, extra[1])
    /\ \A i \in 1..(Len(extra) - 1) : FreeEdge(extra[i], extra[i + 1])
    /\ \A i \in 1..Len(extra) : (Anim.nodes[extra[i]].sync = tag) <=> (i = Len(extra))

\* C28: findPathForSyncedCmd returns the base path as a prefix: unchanged when
\* it is empty or has a node with the sync tag; otherwise unchanged, or
\* followed by a chain of free-edge successors of its last node of which the
\* final node and only the final node carries the sync tag.  The call returns
\* for every input, free edges forming a cycle included.
C28_SyncedPathExtendsBase ==
    /\ \A k \in Calls("findPathForSyncedCmd") :
          LET c == thr[k]
          IN  \E base \in findPathForCmd(Cmd(c.names, 1), c.node) :
                 IF base = <<>> \/ \E i \in 1..Len(base) : Anim.nodes[base[i]].sync = c.tag
                 THEN c.path = base
                 ELSE \/ c.path = base
                      \/ /\ Len(c.path) > Len(base)
                         /\ SubSeq(c.path, 1, Len(base)) = base
                         /\ SyncChain(Last(base),
                                      SubSeq(c.path, Len(base) + 1, Len(c.path)), c.tag)
    /\ \A node \in Frames, names \in PathCmds, tag \in G.tags :
          findPathForSyncedCmd(Cmd(names, 1), node, tag) # {}

\* C28 witness: a base path without the sync tag is returned with the free
\* successors of its last node appended, up to the node with the tag
C28_Witness ==
    \E k \in Calls("findPathForSyncedCmd") :
        \E base \in findPathForCmd(Cmd(thr[k].names, 1), thr[k].node) :
            /\ base # <<>>
            /\ Len(thr[k].path) > Len(base)
            /\ SubSeq(thr[k].path, 1, Len(base)) = base
            /\ \A i \in 1..Len(base) : Anim.nodes[base[i]].sync # thr[k].tag

\* The nodes a Think call was on, in order, each with the dt that was left
\* when the call came to it: the node it started on, then those it entered
Stops(o, sp) == <<[node |-> sp.anim_node, left |-> o.dt]>> \o o.entered

\* The time the sprite has on the k-th stop when it comes to it
Stay(o, sp, k) ==
    IF k = 1 THEN TogoAtCall(sp) ELSE Anim.nodes[Stops(o, sp)[k].node].time

\* C29: during Think, a node of a group that has an edge authored at group
\* level to the next queued node is left at once: the call moves on with its
\* dt undiminished, and stays there only if no dt is left; from any other
\* node the call moves on only after taking the whole remaining time of the
\* node off its dt, and a node it stays on keeps what dt did not use.
C29_GroupEdgeCutsFrameShort ==
    [][(/\ ThinkOf(op') /\ op'.dt >= 0 /\ fault' = "none"
        /\ \A k \in 1..Len(Before.pending_cmds) : Before.pending_cmds[k].group = 0) =>
          LET V == Stops(op', Before)
              n == Len(V)
          IN  /\ \A k \in 1..(n - 1) :
                    V[k + 1].left =
                        V[k].left - (IF connectedByGroupEdge(V[k].node, V[k + 1].node)
                                     THEN 0 ELSE Stay(op', Before, k))
              /\ V[n].node = After.anim_node
              /\ IF After.path # <<>> /\ connectedByGroupEdge(After.anim_node, After.path[1])
                 THEN V[n].left = 0 /\ After.togo = 0
                 ELSE After.togo = Stay(op', Before, n) - V[n].left]_vars

\* C29 witness: a Think call came to "jab" of the group "combo" with dt left
\* and "finish" queued, and entered "finish" with that dt undiminished
C29_Witness ==
    /\ gid = 5
    /\ groups = <<>>
    /\ fault = "none"
    /\ ThinkOf(op)
    /\ \E k \in 1..(Len(op.entered) - 1) :
          /\ op.entered[k].node = 4
          /\ op.entered[k + 1].node = 6
          /\ op.entered[k].left > 0
          /\ op.entered[k + 1].left = op.entered[k].left
          /\ connectedByGroupEdge(4, 6)

\* q is p without its first r commands
Dropped(p, q, r) == r \in 0..Len(p) /\ q = SubSeq(p, r + 1, Len(p))

\* The path resolutions of a Think call that can find the in-flight path
\* empty: one per level of the call, less the levels that the path the
\* sprite had at the start still covers
Resolutions(o, sp) ==
    IF 1 + Len(o.entered) > Len(sp.path) THEN 1 + Len(o.entered) - Len(sp.path) ELSE 0

\* C30: the pending queue is first in, first out.  Command, CommandN and
\* CommandSync leave every queue as it was or with one command added at its
\* tail, the command sent when the call is accepted; Think leaves the queues
\* of the other sprites alone and takes commands off the head of its sprite's
\* queue only, none while the path the sprite had is not used up, and at most
\* one for each path resolution.
C30_PendingIsFifo ==
    [][/\ op'.name \in {"Command", "CommandN", "CommandSync"} =>
            \A s \in SpriteIds :
                \/ sprites'[s].pending_cmds = sprites[s].pending_cmds
                \/ /\ Len(sprites'[s].pending_cmds) = Len(sprites[s].pending_cmds) + 1
                   /\ SubSeq(sprites'[s].pending_cmds, 1, Len(sprites[s].pending_cmds))
                         = sprites[s].pending_cmds
                   /\ op'.name \in {"Command", "CommandN"} =>
                         /\ s = op'.s
                         /\ Last(sprites'[s].pending_cmds) = Cmd(op'.names, 0)
       /\ (op'.name \in {"Command", "CommandN"} /\ op'.ok) =>
            Len(After.pending_cmds) = Len(Before.pending_cmds) + 1
       /\ ThinkOf(op') =>
            /\ \A s \in SpriteIds \ {op'.s} :
                  sprites'[s].pending_cmds = sprites[s].pending_cmds
            /\ \E r \in 0..Resolutions(op', Before) :
                  Dropped(Before.pending_cmds, After.pending_cmds, r)]_vars

\* C30 witness: a command was accepted behind one already pending, and the
\* one pending before it is still at the head
C30_Witness ==
    /\ op.name \in {"Command", "CommandN"}
    /\ op.ok
    /\ Len(sprites[op.s].pending_cmds) = 2
    /\ sprites[op.s].pending_cmds[2] = Cmd(op.names, 0)
    /\ sprites[op.s].pending_cmds[1] # sprites[op.s].pending_cmds[2]

\* The waiter of channel id is on the list ws
OnList(ws, id) == \E i \in 1..Len(ws) : ws[i].id = id

\* C31: waiters are matched against the name of the state-graph node, what
\* State() reports: a Think(dt >= 0) on a sprite with no pending command
\* resolves every waiter whose states contain that name, and a Think resolves
\* no waiter whose states do not contain it, and none while a command is
\* pending.
C31_WaitersMatchStateNode ==
    [][(ThinkOf(op') /\ op'.dt >= 0 /\ fault' = "none") =>
          \A i \in 1..Len(Before.waiters) :
              LET wt == Before.waiters[i]
                  resolved == ~OnList(After.waiters, wt.id)
                                /\ chans'[wt.id].sent > chans[wt.id].sent
              IN  /\ (Before.pending_cmds = <<>> /\ Awaits(wt, State_(Before)))
                        => resolved
                  /\ resolved => /\ Awaits(wt, State_(After))
                                 /\ After.pending_cmds = <<>>]_vars

(***************************************************************************)
(* SpecLive: a game loop.  On every tick the loop thinks every sprite in   *)
(* turn with the tick's dt, which is positive, and it goes on for as long  *)
(* as no call has panicked; between two ticks a bounded number of          *)
(* commands, grouped commands and restored snapshots arrive.  s.thinks is  *)
(* only ever compared with 0, so the loop keeps it at 1 once the sprite    *)
(* has been thought.                                                       *)
(***************************************************************************)
LiveDeltas == {80}

InitLive ==
    /\ gid \in {2, 4}
    /\ sprites = [s \in SpriteIds |-> NewSprite]
    /\ groups = <<>>
    /\ chans = <<>>
    /\ fault = "none"
    /\ op = NoOp
    /\ steps = 0
    /\ trace = <<>>
    /\ clock \in [turn : {1}, dt : LiveDeltas]
    /\ mgr = NoManager
    /\ thr = <<>>

\* The label lists the callers of the loop pass: those of the graphs, and
\* the empty list
LiveCmds == G.cmds \cup {<<>>}

LiveCommand(s, names) ==
    /\ clock.turn = 1
    /\ Budget(MaxOps)
    /\ names \in LiveCmds
    /\ Intake("CommandN", s, names)
    /\ UNCHANGED <<trace, clock, mgr, thr>>

\* What a call of Think by the loop does to the loop's clock: the turn passes
\* to the next sprite
Tick ==
    /\ Running
    /\ clock' = [clock EXCEPT !.turn = IF @ = Len(AllSprites) THEN 1 ELSE @ + 1]

LiveThink(s) ==
    /\ clock.turn = s
    /\ Tick
    /\ \E w \in Think(World, s, clock.dt, ThinkFuel) :
          /\ sprites' = [w.sprites EXCEPT ![s].thinks = 1]
          /\ groups' = w.groups
          /\ chans' = w.chans
          /\ fault' = w.fault
          /\ op' = [OpRec("Think", s, clock.dt, <<>>, w.fault = "none", w.fired,
                          w.blocked, NoSnap) EXCEPT !.entered = w.entered]
    /\ UNCHANGED <<gid, steps, trace, mgr, thr>>

NextLive ==
    \/ \E s \in SpriteIds, names \in LiveCmds : LiveCommand(s, names)
    \/ \E cmds \in G.pairs, tag \in G.tags : clock.turn = 1 /\ CommandSync(cmds, tag)
    \/ \E s \in SpriteIds : \E snap \in Snapshots(s) : clock.turn = 1 /\ Restore(s, snap)
    \/ \E s \in SpriteIds : LiveThink(s)

\* The loop goes on thinking: the only steps that move the clock are those
\* of LiveThink, and one is possible whenever no call has panicked, so the
\* clock keeps ticking.
SpecLive ==
    /\ InitLive
    /\ [][NextLive]_vars
    /\ WF_clock(Tick)

\* C32: when Think is called again and again with a positive dt on every
\* sprite, every accepted command is eventually removed from the pending
\* commands: unless a call panicked, each sprite's queue is empty again and
\* again, also after a command with an empty label list and after one that
\* has no animation path.
C32_EveryCommandIsRemoved ==
    \A s \in SpriteIds : []<>(sprites[s].pending_cmds = <<>> \/ fault # "none")

\* Sprite s has a command of group g among its pending commands
Holds(s, g) ==
    \E i \in 1..Len(sprites[s].pending_cmds) : sprites[s].pending_cmds[i].group = g

\* SetSpriteState has just succeeded on a member of group g, which was not
\* ready, and s is another member that still holds the group's command
RestoredBeside(s, g) ==
    /\ op.name = "SetSpriteState"
    /\ op.ok
    /\ op.s # s
    /\ IsMember(groups[g], op.s)
    /\ IsMember(groups[g], s)
    /\ ~groups[g].was_ready
    /\ Holds(s, g)

\* C36: restoring a snapshot on one member of a command group that is not
\* yet ready does not keep the other members from progressing: when every
\* sprite is thought again and again, each other member eventually dequeues
\* the grouped command, unless a call panicked.
C36_RestoreLeavesOthersProgressing ==
    \A s \in SpriteIds : \A g \in 1..MaxGroups :
        [](g <= Len(groups) /\ RestoredBeside(s, g)
              => <>(~Holds(s, g) \/ fault # "none"))

(***************************************************************************)
(* SpecTurn: the operations of Spec on the pivot and on the orbit graphs.  *)
(***************************************************************************)
InitTurn == InitWith({7, 8})

SpecTurn == InitTurn /\ [][Next]_vars

\* C33: after any sequence of accepted commands and Think calls, Facing()
\* and StateFacing() are indices of the facings, 0..numFacings-1, whatever
\* the facing deltas on the edges are.
C33_FacingsInRange ==
    \A s \in SpriteIds :
        /\ sprites[s].facing \in 0..(NumFacings - 1)
        /\ sprites[s].state_facing \in 0..(NumFacings - 1)

\* C37: baseCommand returns on every valid state graph: the loop that follows
\* the trailing unlabeled edges comes to an end.
C37_BaseCommandTerminates == fault # "hang"

\* C34: right after a successful SetSpriteState, StateFacing() equals
\* Facing(), and both are the facing of the snapshot, whatever commands the
\* sprite had accepted before.
C34_RestoreAlignsStateFacing ==
    (op.name = "SetSpriteState" /\ op.ok) =>
        /\ sprites[op.s].facing = op.snap.Facing
        /\ sprites[op.s].state_facing = sprites[op.s].facing

\* C35: the loads of the facings are balanced: once Think has been called on
\* a sprite, the facing it shows has been loaded once more than unloaded and
\* every other facing as often as unloaded, after any sequence of Think,
\* commands and SetSpriteState.
C35_FacingLoadsBalanced ==
    \A s \in SpriteIds :
        (sprites[s].thinks > 0 /\ fault = "none") =>
            \A f \in DOMAIN sprites[s].loads :
                sprites[s].loads[f] = IF f = sprites[s].facing THEN 1 ELSE 0

====
